---- MODULE Spec2Model ----
(***************************************************************************)
(* Model of the context management microservice (src/context_service.py)  *)
(* and of the agents that use it (src/agent.py, src/agent_with_rag.py,     *)
(* src/utils.py).                                                          *)
(*                                                                         *)
(* The state is the ChromaDB collection "agent_context", whether the       *)
(* module's handle still refers to it, the last request served, the        *)
(* response it got and the texts it had embedded.  Every endpoint is an    *)
(* `async def` without an await in its body, so the event loop runs each   *)
(* handler to completion before the next one starts: one action models     *)
(* one whole handler.                                                      *)
(*                                                                         *)
(* Spec serves the session-scoped endpoints add, query, recent, clear and  *)
(* stats on the collection opened at start-up.  SpecPurge adds the health  *)
(* check and the purge of the whole collection.  SpecQuery loads the       *)
(* collection beyond the query cap and queries it.  SpecClassify, SpecMeta *)
(* and SpecCompress add and clear messages chosen for what an add writes:  *)
(* the type, the merged metadata, the text that is embedded.               *)
(* SpecValidate posts add bodies with and without a session_id.  SpecLoop  *)
(* keeps two requests in flight on the event loop.  SpecAgent calls the    *)
(* tools of the RAG agent; SpecResponse has agent.py write the code blocks *)
(* of responses into the directory those tools write to.  SpecChat runs    *)
(* the main loop of agent.py with its conversation history, SpecRag the    *)
(* main loop of agent_with_rag.py from one call of the context service to  *)
(* the next, each call reaching the service or not.                        *)
(*                                                                         *)
(* Strings are kept run-length encoded: a string is the sequence of its   *)
(* maximal runs [c |-> character, n |-> length], so that two strings are  *)
(* equal exactly when their encodings are equal and a text of more than   *)
(* 1000 characters is a small value.                                       *)
(***************************************************************************)
EXTENDS Integers, Sequences, FiniteSets, TLC

VARIABLES
    store,      \* the entries of the collection "agent_context" of the database
    live,       \* whether the module's `collection` is that collection
    req,        \* the request served last
    resp,       \* the response it got
    embedded,   \* the texts it handed to embedding_model.encode
    tasks,      \* the requests the event loop has accepted and not answered
    files,      \* the files of the agent's working directory, name to content
    executed,   \* the shell commands the agent has run
    asked,      \* the safety prompt shown last and the user's answer to it
    tool_result,    \* what the tool called last returned
    files_created,  \* what process_response returned last
    history,    \* messages, the conversation history of agent.py
    pc,         \* where the main loop of each agent stands
    console,    \* what each agent printed last
    turn        \* the input and the model's answer of the RAG agent's turn

service_vars == <<store, live, req, resp, embedded>>

agent_vars == <<files, executed, asked, tool_result, files_created>>

loop_vars == <<history, pc, console, turn>>

vars == <<service_vars, tasks, agent_vars, loop_vars>>

(***************************************************************************)
(* Strings                                                                 *)
(***************************************************************************)

Run(ch, k) == [c |-> ch, n |-> k]

\* s + t
StrCat(s, t) ==
    IF s = <<>> THEN t
    ELSE IF t = <<>> THEN s
    ELSE IF s[Len(s)].c = t[1].c
         THEN SubSeq(s, 1, Len(s) - 1)
                \o <<Run(t[1].c, s[Len(s)].n + t[1].n)>>
                \o Tail(t)
         ELSE s \o t

RECURSIVE FromChars(_)
\* the string whose characters are the elements of the tuple cs
FromChars(cs) ==
    IF cs = <<>> THEN <<>>
    ELSE StrCat(<<Run(Head(cs), 1)>>, FromChars(Tail(cs)))

RECURSIVE StrLen(_)
\* len(s)
StrLen(s) == IF s = <<>> THEN 0 ELSE s[1].n + StrLen(Tail(s))

RECURSIVE StrTake(_, _)
\* s[:k] for k >= 0
StrTake(s, k) ==
    IF k <= 0 \/ s = <<>> THEN <<>>
    ELSE IF s[1].n >= k THEN <<Run(s[1].c, k)>>
    ELSE <<s[1]>> \o StrTake(Tail(s), k - s[1].n)

RECURSIVE StrDrop(_, _)
\* s[k:] for k >= 0
StrDrop(s, k) ==
    IF s = <<>> THEN <<>>
    ELSE IF k <= 0 THEN s
    ELSE IF s[1].n > k THEN <<Run(s[1].c, s[1].n - k)>> \o Tail(s)
    ELSE StrDrop(Tail(s), k - s[1].n)

\* s[-k:]; in Python s[-0:] is the whole of s
StrTakeLast(s, k) ==
    IF k = 0 THEN s
    ELSE IF k >= StrLen(s) THEN s
    ELSE StrDrop(s, StrLen(s) - k)

RECURSIVE Expand(_)
\* the tuple of the characters of s
Expand(s) ==
    IF s = <<>> THEN <<>>
    ELSE [i \in 1..s[1].n |-> s[1].c] \o Expand(Tail(s))

UpperCase == <<"T", "O", "L">>
LowerCase == <<"t", "o", "l">>

\* the lower-case form of one character
LowerChar(ch) ==
    IF \E i \in 1..Len(UpperCase) : UpperCase[i] = ch
    THEN LowerCase[CHOOSE i \in 1..Len(UpperCase) : UpperCase[i] = ch]
    ELSE ch

RECURSIVE StrLower(_)
\* s.lower()
StrLower(s) ==
    IF s = <<>> THEN <<>>
    ELSE StrCat(<<Run(LowerChar(s[1].c), s[1].n)>>, StrLower(Tail(s)))

\* pat in s
StrContains(s, pat) ==
    LET f == Expand(s)
        p == Expand(pat)
    IN  \E i \in 1..(Len(f) - Len(p) + 1) : SubSeq(f, i, i + Len(p) - 1) = p

(***************************************************************************)
(* Inputs                                                                  *)
(***************************************************************************)

\* the store is never grown beyond this many entries
MaxEntries == 2
\* limit and offset of /context/recent range over 1..MaxLimit and 0..MaxOffset
MaxLimit == 2
MaxOffset == 1
\* top_k of /context/query ranges over 1..MaxTopK
MaxTopK == 1

\* session ids; the second holds the separator of generate_id
Sessions == {FromChars(<<"a">>), FromChars(<<"a", "_", "b">>)}

ShortContent == FromChars(<<"c">>)

\* with session "a" this gives the hash input that ShortContent gives with
\* session "a_b"
SeparatorContent == FromChars(<<"b", "_", "c">>)

\* a text one character longer than the threshold of compress_long_content
LongContent == <<Run("x", 1001)>>

\* ISO-8601 timestamps of one fixed format, written as one digit each; their
\* string order is the order of the digits
Timestamps == {"1", "2"}

\* message.timestamp of a request: a timestamp, or "" for an absent one
\* (None and "" are both false in `message.timestamp or ...`)
NoTimestamp == ""

\* message.metadata of a request that gives none (None and {} are both false
\* in `message.metadata or {}`)
NoMetadata == [k \in {} |-> ""]

\* the messages a caller sends to /context/add
Messages ==
    {[role |-> "user", content |-> ShortContent, timestamp |-> "2",
      metadata |-> NoMetadata],
     [role |-> "assistant", content |-> ShortContent, timestamp |-> "2",
      metadata |-> NoMetadata],
     [role |-> "user", content |-> LongContent, timestamp |-> "1",
      metadata |-> NoMetadata],
     [role |-> "user", content |-> SeparatorContent, timestamp |-> "2",
      metadata |-> NoMetadata],
     [role |-> "assistant", content |-> ShortContent,
      timestamp |-> NoTimestamp, metadata |-> NoMetadata]}

Queries == {FromChars(<<"c">>)}

\* filter_by_type of a request: a type, or "" for an absent one
NoType == ""

FilterTypes == {NoType, "user_query"}

\* what can go wrong inside add_context
Outcomes == {"ok", "embedding_fails", "insert_fails"}

(***************************************************************************)
(* Helper functions                                                        *)
(***************************************************************************)

Digits == <<"0", "1", "2", "3", "4", "5", "6", "7", "8", "9">>

\* the position of a one-digit timestamp in the order of str; "" is least
TsRank(ts) ==
    IF ts = "" THEN 0 ELSE CHOOSE i \in 1..Len(Digits) : Digits[i] = ts

\* the characters of a timestamp
TsStr(ts) == IF ts = "" THEN <<>> ELSE <<Run(ts, 1)>>

\* hashlib.md5(raw.encode()).hexdigest(), taken to be collision-free: the
\* digest is identified with the text it was computed from
Md5(raw) == raw

generate_id(session_id, content, timestamp) ==
    LET sep == <<Run("_", 1)>>
        raw == StrCat(StrCat(StrCat(StrCat(session_id, sep), content), sep),
                      TsStr(timestamp))
    IN  Md5(raw)

ToolWord == FromChars(<<"t", "o", "o", "l">>)
ToolJson == FromChars(<<"{", "\"", "t", "o", "o", "l", "\"", ":">>)

\* a classification that looks at the tool marker first and finds it in
\* lower case only
MsgTypeMarkerFirst(role, content) ==
    IF StrContains(content, ToolWord) THEN "tool_call"
    ELSE IF role = "user" THEN "user_query"
    ELSE IF role = "assistant" THEN "agent_response"
    ELSE "chat"

\* the type extract_metadata gives a message
MsgType(role, content) ==
    IF role = "user" THEN "user_query"
    ELSE IF StrContains(StrLower(content), ToolWord)
            \/ StrContains(content, ToolJson)
         THEN "tool_call"
    ELSE IF role = "assistant" THEN "agent_response"
    ELSE "chat"

max_length == 1000

TruncationMarker ==
    FromChars(<<"\n", ".", ".", ".", " ", "[", "c", "o", "n", "t", "e", "n",
                "t", " ", "t", "r", "u", "n", "c", "a", "t", "e", "d", "]",
                " ", ".", ".", ".", "\n">>)

\* an embedding input cut at the threshold
compress_cut(content) == StrTake(content, max_length)

\* an embedding input that is the content whatever its length
compress_none(content) == content

compress_long_content(content) ==
    IF StrLen(content) <= max_length THEN content
    ELSE LET half == max_length \div 2
         IN  StrCat(StrCat(StrTake(content, half), TruncationMarker),
                    StrTakeLast(content, half))

\* a length taken of the text that is embedded
ContentLengthEmbedded(content) == StrLen(compress_long_content(content))

\* len(message.content)
ContentLength(content) == StrLen(content)

\* the keys extract_metadata derives; now is the value datetime.now() has
\* when line 98 evaluates it
DerivedMetadata(message, session_id, now) ==
    [session_id |-> session_id,
     role |-> message.role,
     type |-> MsgType(message.role, message.content),
     timestamp |-> IF message.timestamp # NoTimestamp
                   THEN message.timestamp ELSE now,
     content_length |-> ContentLength(message.content)]

\* a merge in which the caller's value for a key wins
extract_metadata_caller_wins(message, session_id, now) ==
    message.metadata @@ DerivedMetadata(message, session_id, now)

\* extract_metadata(message, session_id): the caller's metadata updated with
\* the derived keys (dict.update: a key of both takes the derived value)
extract_metadata(message, session_id, now) ==
    DerivedMetadata(message, session_id, now) @@ message.metadata

\* embedding_model.encode(text): some fixed function of the text
Encode(text) == <<StrLen(text), Len(text)>>

\* the squared L2 distance ChromaDB ranks by
Distance(u, v) ==
    (u[1] - v[1]) * (u[1] - v[1]) + (u[2] - v[2]) * (u[2] - v[2])

(***************************************************************************)
(* The collection                                                          *)
(***************************************************************************)

Ids(col) == {col[i].id : i \in 1..Len(col)}

\* an add that replaces the entry of an id the collection already holds
CollectionAddUpsert(col, id, embedding, document, metadata) ==
    [i \in 1..Len(col) |->
        IF col[i].id = id
        THEN [id |-> id, embedding |-> embedding, document |-> document,
              metadata |-> metadata]
        ELSE col[i]]
    \o (IF id \in Ids(col) THEN <<>>
        ELSE <<[id |-> id, embedding |-> embedding, document |-> document,
                metadata |-> metadata]>>)

\* an add that writes its entry over the one stored last
CollectionAddOverLast(col, id, embedding, document, metadata) ==
    IF id \in Ids(col) THEN col
    ELSE Append(SubSeq(col, 1, Len(col) - 1),
                [id |-> id, embedding |-> embedding, document |-> document,
                 metadata |-> metadata])

\* collection.add of one entry: an id the collection already holds is left
\* as it is (ChromaDB logs "Add of existing embedding ID" and goes on)
CollectionAdd(col, id, embedding, document, metadata) ==
    IF id \in Ids(col) THEN col
    ELSE Append(col, [id |-> id, embedding |-> embedding,
                      document |-> document, metadata |-> metadata])

\* a get that leaves the where clause out
CollectionGetAll(col, session_id) == col

\* collection.get(where={"session_id": session_id}): the matching entries
\* in the order of the collection
CollectionGet(col, session_id) ==
    LET Match(e) == e.metadata.session_id = session_id
    IN  SelectSeq(col, Match)

\* collection.get(where={"session_id": session_id}, limit=k)
CollectionGetLimit(col, session_id, k) ==
    LET all == CollectionGet(col, session_id)
    IN  SubSeq(all, 1, IF k < Len(all) THEN k ELSE Len(all))

\* collection.delete(ids=ids)
CollectionDelete(col, ids) ==
    LET Keep(e) == e.id \notin ids
    IN  SelectSeq(col, Keep)

RECURSIVE InsertByKey(_, _)
\* s with x put in front of the first element of a greater key, or at the end
InsertByKey(x, s) ==
    IF s = <<>> THEN <<x>>
    ELSE IF x.key < Head(s).key THEN <<x>> \o s
    ELSE <<Head(s)>> \o InsertByKey(x, Tail(s))

RECURSIVE StableSort(_)
\* list.sort on a sequence of [key, val]: ascending keys, elements of equal
\* keys in the order they have in s
StableSort(s) ==
    IF s = <<>> THEN <<>>
    ELSE InsertByKey(s[Len(s)], StableSort(SubSeq(s, 1, Len(s) - 1)))

\* s sorted by the keys given for its elements, ascending and stable
SortedBy(s, keys) ==
    LET keyed == StableSort([i \in 1..Len(s) |->
                                [key |-> keys[i], val |-> s[i]]])
    IN  [i \in 1..Len(s) |-> keyed[i].val]

\* a query that takes the first k matching entries as they are stored
CollectionQueryUnranked(col, v, k, session_id, type) ==
    LET Match(e) == /\ e.metadata.session_id = session_id
                    /\ type # NoType => e.metadata.type = type
        matching == SelectSeq(col, Match)
    IN  SubSeq(matching, 1, IF k < Len(matching) THEN k ELSE Len(matching))

\* collection.query(query_embeddings=[v], n_results=k, where=...): the k
\* matching entries nearest to v, nearest first
CollectionQuery(col, v, k, session_id, type) ==
    LET Match(e) == /\ e.metadata.session_id = session_id
                    /\ type # NoType => e.metadata.type = type
        matching == SelectSeq(col, Match)
        ranked == SortedBy(matching,
                           [i \in 1..Len(matching) |->
                                Distance(matching[i].embedding, v)])
    IN  SubSeq(ranked, 1, IF k < Len(ranked) THEN k ELSE Len(ranked))

(***************************************************************************)
(* Endpoints                                                               *)
(***************************************************************************)

\* the requests that can be in flight at one time
Tasks == {"t1", "t2"}

Init ==
    /\ store = <<>>
    /\ live = TRUE
    /\ req = [op |-> "none"]
    /\ resp = [status |-> "none"]
    /\ embedded = <<>>
    /\ tasks = [t \in Tasks |-> [pc |-> "idle"]]
    /\ files = <<>>
    /\ executed = <<>>
    /\ asked = [command |-> "", answer |-> FALSE]
    /\ tool_result = [kind |-> "none"]
    /\ files_created = <<>>
    /\ history = <<>>
    /\ pc = [agent |-> "prompt", rag |-> "connect"]
    /\ console = [agent |-> "welcome", rag |-> "welcome"]
    /\ turn = [user_input |-> <<>>, content |-> <<>>,
               returned |-> [kind |-> "None"]]

\* requests are served one after the other, none is in flight between two
\* of them, and no agent is at work
Serial == UNCHANGED <<tasks, agent_vars, loop_vars>>

\* the HTTPException(status_code=500) a handler turns an exception into;
\* detail tells which call raised it
\* a failure answered as if the request had been served
Error500AsSuccess(detail) == [status |-> "success", message |-> detail]

Error500(detail) == [status |-> "error", detail |-> detail]

\* an add that stores the text it embedded
AddDocumentCompressed(content) == compress_long_content(content)

\* the document add_context hands to collection.add
AddDocument(content) == content

\* the timestamp add_context hands to generate_id; now is the value
\* datetime.now() has when line 135 evaluates it
AddTimestamp(timestamp, now) ==
    IF timestamp # NoTimestamp THEN timestamp ELSE now

\* the call of add_context that raises, "" if none does: the embedding or
\* the insertion when told to, any call on a collection that is gone
AddFailure(outcome) ==
    IF outcome = "embedding_fails" THEN "embedding"
    ELSE IF outcome = "insert_fails" THEN "insert"
    ELSE IF ~live THEN "collection"
    ELSE ""

\* an add whose entry is written although the insertion reported a failure
AddContextPartial(session_id, message, now1, now2, outcome) ==
    LET content == message.content
        ts == AddTimestamp(message.timestamp, now1)
        doc_id == generate_id(session_id, content, ts)
        full == extract_metadata(message, session_id, now2)
        embedding == Encode(compress_long_content(content))
    IN  /\ req' = [op |-> "add", session_id |-> session_id,
                   message |-> message]
        /\ embedded' = <<compress_long_content(content)>>
        /\ store' = IF AddFailure(outcome) \in {"embedding", "collection"}
                    THEN store
                    ELSE CollectionAdd(store, doc_id, embedding,
                                       AddDocument(content), full)
        /\ resp' = IF AddFailure(outcome) = ""
                   THEN [status |-> "success", id |-> doc_id]
                   ELSE Error500(AddFailure(outcome))
        /\ live' = live

\* POST /context/add.  now1 and now2 are the two readings of the clock, at
\* line 135 and inside extract_metadata at line 98.
AddContext(session_id, message, now1, now2, outcome) ==
    LET content == message.content
        ts == AddTimestamp(message.timestamp, now1)
        doc_id == generate_id(session_id, content, ts)
        full == extract_metadata(message, session_id, now2)
        content_for_embedding == compress_long_content(content)
        embedding == Encode(content_for_embedding)
    IN  /\ req' = [op |-> "add", session_id |-> session_id,
                   message |-> message]
        /\ embedded' = <<content_for_embedding>>
        /\ IF AddFailure(outcome) = ""
           THEN /\ store' = CollectionAdd(store, doc_id, embedding,
                                          AddDocument(content), full)
                /\ resp' = [status |-> "success", id |-> doc_id]
           ELSE /\ store' = store
                /\ resp' = Error500(AddFailure(outcome))
        /\ live' = live

\* The cap request.top_k is held to
QueryCap == 20

Min(a, b) == IF a < b THEN a ELSE b

\* a query that hands top_k to the collection as it came
NResultsUncapped(top_k) == top_k[1]

\* top_k of a request: <<k>> for the integer k, <<>> for null
NoTopK == <<>>

\* min(request.top_k, 20), for a top_k that is an integer
NResults(top_k) == Min(top_k[1], QueryCap)

\* the call of query_context that raises, "" if none does: the embedding when
\* told to, min() on a null top_k, collection.query on n_results below 1, on a
\* where clause of two keys the installed ChromaDB rejects, or on a
\* collection that is gone
QueryFailure(top_k, filter_by_type, embed_ok, where_ok) ==
    IF ~embed_ok THEN "embedding"
    ELSE IF top_k = NoTopK THEN "top_k"
    ELSE IF NResults(top_k) < 1 THEN "n_results"
    ELSE IF filter_by_type # NoType /\ ~where_ok THEN "where"
    ELSE IF ~live THEN "collection"
    ELSE ""

\* what query_context answers.  where_ok tells whether the installed
\* ChromaDB takes a where clause of two keys as their conjunction or rejects
\* it.
QueryResponse(session_id, query, top_k, filter_by_type, embed_ok, where_ok) ==
    LET query_embedding == Encode(query)
        failure == QueryFailure(top_k, filter_by_type, embed_ok, where_ok)
        results == CollectionQuery(store, query_embedding, NResults(top_k),
                                   session_id, filter_by_type)
        messages == [i \in 1..Len(results) |->
                        [id |-> results[i].id,
                         content |-> results[i].document,
                         metadata |-> results[i].metadata,
                         distance |-> Distance(results[i].embedding,
                                               query_embedding)]]
    IN  IF failure = ""
        THEN [status |-> "success", messages |-> messages,
              total_count |-> Len(messages)]
        ELSE Error500(failure)

\* POST /context/query
QueryContext(session_id, query, top_k, filter_by_type, embed_ok, where_ok) ==
    /\ req' = [op |-> "query", session_id |-> session_id,
               query |-> query, top_k |-> top_k,
               filter_by_type |-> filter_by_type]
    /\ embedded' = <<query>>
    /\ store' = store
    /\ resp' = QueryResponse(session_id, query, top_k, filter_by_type,
                             embed_ok, where_ok)
    /\ live' = live

\* the entries get_recent_context asks the collection for
RecentFetch(session_id, limit, offset) ==
    CollectionGetLimit(store, session_id, limit + offset)

\* a session without entries taken for a failure
EmptyContextFailure == Error500("empty")

\* ContextResponse(messages=[], total_count=0)
EmptyContextResponse ==
    [status |-> "success", messages |-> <<>>, total_count |-> 0]

\* what get_recent_context answers
RecentResponse(session_id, limit, offset) ==
    LET results == RecentFetch(session_id, limit, offset)
        messages_with_time ==
            [i \in 1..Len(results) |->
                [id |-> results[i].id,
                 content |-> results[i].document,
                 metadata |-> results[i].metadata,
                 timestamp |-> results[i].metadata.timestamp]]
        \* sort(key=timestamp, reverse=True) keeps equal elements in order
        sorted == SortedBy(messages_with_time,
                           [i \in 1..Len(results) |->
                                0 - TsRank(messages_with_time[i].timestamp)])
        paginated == SubSeq(sorted, offset + 1, Min(offset + limit, Len(sorted)))
    IN  IF ~live THEN Error500("collection")
        ELSE IF results = <<>> THEN EmptyContextResponse
        ELSE [status |-> "success", messages |-> paginated,
              total_count |-> Len(messages_with_time)]

\* POST /context/recent
GetRecentContext(session_id, limit, offset) ==
    /\ req' = [op |-> "recent", session_id |-> session_id,
               limit |-> limit, offset |-> offset]
    /\ embedded' = <<>>
    /\ store' = store
    /\ resp' = RecentResponse(session_id, limit, offset)
    /\ live' = live

\* a clear that deletes the first entry it found only
ClearIdsFirst(session_id) ==
    LET results == CollectionGet(store, session_id)
    IN  IF results = <<>> THEN {} ELSE {results[1].id}

\* a clear that deletes whatever the collection holds
ClearIdsAll(session_id) == Ids(store)

\* a clear that spares the entry of the session stored last
ClearIdsButLast(session_id) ==
    LET results == CollectionGet(store, session_id)
    IN  {results[i].id : i \in 1..(Len(results) - 1)}

\* the ids clear_context deletes
ClearIds(session_id) ==
    LET results == CollectionGet(store, session_id)
    IN  {results[i].id : i \in 1..Len(results)}

\* POST /context/clear
ClearContext(session_id) ==
    LET results == CollectionGet(store, session_id)
    IN  /\ req' = [op |-> "clear", session_id |-> session_id]
        /\ embedded' = <<>>
        /\ store' = IF live /\ results # <<>>
                    THEN CollectionDelete(store, ClearIds(session_id))
                    ELSE store
        /\ resp' = IF ~live THEN Error500("collection")
                   ELSE [status |-> "success", deleted_count |-> Len(results)]
        /\ live' = live

\* a minimum that takes the greatest
OldestOfGreatest(stamps) ==
    CHOOSE t \in stamps : \A u \in stamps : TsRank(t) >= TsRank(u)

\* min(...) of the timestamps, as strings
OldestOf(stamps) ==
    CHOOSE t \in stamps : \A u \in stamps : TsRank(t) <= TsRank(u)

\* max(...) of the timestamps, as strings
NewestOf(stamps) ==
    CHOOSE t \in stamps : \A u \in stamps : TsRank(t) >= TsRank(u)

\* type_counts of get_context_stats, as the set of its (type, count) items
TypeCounts(results) ==
    LET n == Len(results)
        present == {results[i].metadata.type : i \in 1..n}
    IN  {<<t, Cardinality({i \in 1..n : results[i].metadata.type = t})>> :
            t \in present}

\* GET /context/stats/{session_id}
GetContextStats(session_id) ==
    LET results == CollectionGet(store, session_id)
        n == Len(results)
        stamps == {results[i].metadata.timestamp : i \in 1..n}
    IN  /\ req' = [op |-> "stats", session_id |-> session_id]
        /\ embedded' = <<>>
        /\ store' = store
        /\ resp' = IF ~live THEN Error500("collection")
                   ELSE IF results = <<>>
                   THEN [status |-> "success", session_id |-> session_id,
                         total_messages |-> 0, by_type |-> {},
                         has_times |-> FALSE]
                   ELSE [status |-> "success", session_id |-> session_id,
                         total_messages |-> n,
                         by_type |-> TypeCounts(results),
                         has_times |-> TRUE,
                         oldest_message |-> OldestOf(stamps),
                         newest_message |-> NewestOf(stamps)]
        /\ live' = live

\* the readings datetime.now() can give at lines 135 and 98, the second not
\* before the first; they are read only when the message has no timestamp
ClockReadings(timestamp) ==
    IF timestamp # NoTimestamp THEN {<<"1", "1">>}
    ELSE {t \in Timestamps \X Timestamps : TsRank(t[1]) <= TsRank(t[2])}

\* the add writes no entry beyond the MaxEntries the store is explored to
HasRoom(session_id, message, now) ==
    \/ Len(store) < MaxEntries
    \/ generate_id(session_id, message.content,
                   AddTimestamp(message.timestamp, now)) \in Ids(store)

\* one request served, its session drawn from sessions and, for an add, its
\* message from messages
Step(sessions, messages) ==
    \/ \E session_id \in sessions, message \in messages, outcome \in Outcomes :
        \E now \in ClockReadings(message.timestamp) :
            /\ HasRoom(session_id, message, now[1])
            /\ AddContext(session_id, message, now[1], now[2], outcome)
            /\ Serial
    \/ \E session_id \in sessions, query \in Queries, top_k \in 1..MaxTopK,
          filter_by_type \in FilterTypes, embed_ok \in BOOLEAN :
        \E where_ok \in IF filter_by_type = NoType THEN {TRUE} ELSE BOOLEAN :
            /\ QueryContext(session_id, query, <<top_k>>, filter_by_type,
                            embed_ok, where_ok)
            /\ Serial
    \/ \E session_id \in sessions, limit \in 1..MaxLimit,
          offset \in 0..MaxOffset :
            GetRecentContext(session_id, limit, offset) /\ Serial
    \/ \E session_id \in sessions : ClearContext(session_id) /\ Serial
    \/ \E session_id \in sessions : GetContextStats(session_id) /\ Serial

Next == Step(Sessions, Messages)

Spec == Init /\ [][Next]_vars

(***************************************************************************)
(* The service with its administrative endpoints                           *)
(***************************************************************************)

\* a health check that drops what the collection holds
HealthCheckResetting ==
    /\ req' = [op |-> "health"]
    /\ embedded' = <<>>
    /\ store' = <<>>
    /\ resp' = IF ~live THEN Error500("collection")
               ELSE [status |-> "running", total_contexts |-> Len(store)]
    /\ live' = live

\* GET /.  root() has no try block: an exception of collection.count() is
\* answered by the framework with status 500.
HealthCheck ==
    /\ req' = [op |-> "health"]
    /\ embedded' = <<>>
    /\ store' = store
    /\ resp' = IF ~live THEN Error500("collection")
               ELSE [status |-> "running", total_contexts |-> Len(store)]
    /\ live' = live

\* DELETE /context/all.  The database drops "agent_context" and creates it
\* anew; the name `collection` assigned at line 290 is local to the handler,
\* so the module's `collection`, which every handler reads, stays the
\* collection that was dropped.  A second purge drops and creates by name
\* and succeeds again.  When delete_collection raises, nothing is dropped and
\* the except clause answers 500.
ClearAllContext(outcome) ==
    /\ req' = [op |-> "purge"]
    /\ embedded' = <<>>
    /\ store' = IF outcome = "ok" THEN <<>> ELSE store
    /\ live' = IF outcome = "ok" THEN FALSE ELSE live
    /\ resp' = IF outcome = "ok" THEN [status |-> "success"]
               ELSE Error500("delete_collection")

PurgeOutcomes == {"ok", "delete_fails"}

PurgeSessions == {FromChars(<<"a">>), FromChars(<<"b">>)}

PurgeMessages ==
    {[role |-> "user", content |-> ShortContent, timestamp |-> "1",
      metadata |-> NoMetadata],
     [role |-> "assistant", content |-> ShortContent, timestamp |-> "2",
      metadata |-> NoMetadata],
     [role |-> "assistant", content |-> ShortContent, timestamp |-> "1",
      metadata |-> NoMetadata]}

NextPurge ==
    \/ Step(PurgeSessions, PurgeMessages)
    \/ HealthCheck /\ Serial
    \/ \E outcome \in PurgeOutcomes : ClearAllContext(outcome) /\ Serial

SpecPurge == Init /\ [][NextPurge]_vars

(***************************************************************************)
(* Queries on a collection that holds more entries than the cap            *)
(***************************************************************************)

\* the collection is loaded with this many entries
MaxLoad == 26

LoadSessions == {FromChars(<<"a">>), FromChars(<<"b">>)}

\* the session of the i-th add of the load: "b" every ninth, else "a"
LoadSession(i) ==
    IF i % 9 = 0 THEN FromChars(<<"b">>) ELSE FromChars(<<"a">>)

\* the message of the i-th add of the load: of the assistant every eighth,
\* else of the user; its content is of a length of its own, and the lengths
\* come in no order
LoadMessage(i) ==
    [role |-> IF i % 8 = 0 THEN "assistant" ELSE "user",
     content |-> <<Run("y", ((i * 7) % 29) + 1)>>,
     timestamp |-> "1",
     metadata |-> NoMetadata]

\* the second has stored contents at equal distance on both sides
LoadQueries == {<<Run("y", 1)>>, <<Run("y", 15)>>}

\* top_k of the requests: null, below 1, below, at and above the cap
TopKs == {NoTopK, <<-1>>, <<0>>, <<1>>, <<5>>, <<20>>, <<21>>, <<50>>}

NextQuery ==
    \/ /\ Len(store) < MaxLoad
       /\ AddContext(LoadSession(Len(store) + 1), LoadMessage(Len(store) + 1),
                     "1", "1", "ok")
       /\ Serial
    \/ \E session_id \in LoadSessions, query \in LoadQueries, top_k \in TopKs,
          filter_by_type \in FilterTypes, embed_ok \in BOOLEAN :
        \E where_ok \in IF filter_by_type = NoType THEN {TRUE} ELSE BOOLEAN :
            /\ QueryContext(session_id, query, top_k, filter_by_type, embed_ok,
                            where_ok)
            /\ Serial

SpecQuery == Init /\ [][NextQuery]_vars

(***************************************************************************)
(* What an add writes                                                      *)
(***************************************************************************)

WriteSession == FromChars(<<"a">>)

\* adds of the messages given, all served, and clears, on one session
WriteStep(messages) ==
    \/ \E message \in messages :
        /\ HasRoom(WriteSession, message, "1")
        /\ AddContext(WriteSession, message, "1", "1", "ok")
        /\ Serial
    \/ ClearContext(WriteSession) /\ Serial

ClassifyRoles == {"user", "assistant", "system"}

\* contents without the word "tool", with it in lower and in mixed case, with
\* the literal {"tool": and with the letters of the word but not the word
ClassifyContents ==
    {FromChars(<<"c">>),
     FromChars(<<"a", "t", "o", "o", "l">>),
     FromChars(<<"T", "o", "O", "L", "s">>),
     FromChars(<<"{", "\"", "t", "o", "o", "l", "\"", ":">>),
     FromChars(<<"t", "o", "l", "o">>)}

ClassifyMessages ==
    {[role |-> r, content |-> c, timestamp |-> "1", metadata |-> NoMetadata] :
        r \in ClassifyRoles, c \in ClassifyContents}

SpecClassify == Init /\ [][WriteStep(ClassifyMessages)]_vars

\* metadata a caller sends with a message: the keys the agent sends with a
\* tool result (src/agent_with_rag.py), and a value for every key the service
\* derives
ToolResultMetadata == [type |-> "tool_result", tool_name |-> "calc"]

OverridingMetadata ==
    [session_id |-> FromChars(<<"z">>), role |-> "admin",
     type |-> "tool_result", timestamp |-> "9", content_length |-> 0,
     source |-> "cli"]

MetaMessages ==
    {[role |-> r, content |-> c, timestamp |-> "1", metadata |-> md] :
        r \in {"system", "user"},
        c \in {FromChars(<<"T", "o", "o", "l">>), FromChars(<<"c">>)},
        md \in {NoMetadata, ToolResultMetadata, OverridingMetadata}}
    \cup
    {[role |-> "assistant", content |-> FromChars(<<"d">>),
      timestamp |-> NoTimestamp, metadata |-> OverridingMetadata],
     [role |-> "user", content |-> LongContent,
      timestamp |-> "2", metadata |-> [source |-> "cli"]]}

SpecMeta == Init /\ [][WriteStep(MetaMessages)]_vars

\* contents below, at and above the threshold of compress_long_content; the
\* fifth is the compressed form of a longer content
CompressContents ==
    {FromChars(<<"c">>),
     <<Run("p", 999)>>,
     <<Run("a", 400), Run("b", 600)>>,
     <<Run("h", 500), Run("m", 1), Run("t", 500)>>,
     StrCat(StrCat(<<Run("h", 500)>>, TruncationMarker), <<Run("t", 500)>>),
     <<Run("x", 1029)>>,
     <<Run("q", 1000), Run("r", 1)>>,
     <<Run("a", 300), Run("b", 700), Run("c", 600), Run("d", 400)>>}

CompressMessages ==
    {[role |-> "user", content |-> c, timestamp |-> "1",
      metadata |-> NoMetadata] : c \in CompressContents}

SpecCompress == Init /\ [][WriteStep(CompressMessages)]_vars

(***************************************************************************)
(* Request validation: the body of POST /context/add                       *)
(***************************************************************************)

\* session ids of the bodies posted: the empty string and a plain one
EmptySession == <<>>

PostedSessions == {EmptySession, FromChars(<<"a">>)}

\* the bodies posted: with the field session_id or without it
AddBodies ==
    {[message |-> m] : m \in Messages} \cup
    {[session_id |-> s, message |-> m] : s \in PostedSessions, m \in Messages}

\* what FastAPI answers when AddContextRequest does not validate
Error422 == [status |-> "invalid", detail |-> "session_id: field required"]

\* AddContextRequest: session_id is a required str, of any length
AddContextRequest(body) == "session_id" \in DOMAIN body

\* POST /context/add with a body: FastAPI validates it against
\* AddContextRequest and calls add_context when it does
PostAdd(body, now1, now2, outcome) ==
    IF AddContextRequest(body)
    THEN /\ HasRoom(body.session_id, body.message, now1)
         /\ AddContext(body.session_id, body.message, now1, now2, outcome)
    ELSE /\ req' = [op |-> "rejected"]
         /\ resp' = Error422
         /\ UNCHANGED <<store, live, embedded>>

NextValidate ==
    \/ \E body \in AddBodies, outcome \in Outcomes :
        \E now \in ClockReadings(body.message.timestamp) :
            PostAdd(body, now[1], now[2], outcome) /\ Serial
    \/ \E session_id \in PostedSessions, limit \in 1..MaxLimit :
        GetRecentContext(session_id, limit, 0) /\ Serial
    \/ \E session_id \in PostedSessions : ClearContext(session_id) /\ Serial

SpecValidate == Init /\ [][NextValidate]_vars

(***************************************************************************)
(* The event loop: uvicorn runs app in one process on one event loop.      *)
(* Every endpoint is an `async def` that never awaits, so a handler that   *)
(* has started runs to its return, embedding_model.encode and the calls on *)
(* the collection included, before the loop starts another.  A request is  *)
(* accepted (its call has started for the caller), then its handler        *)
(* begins, completes and the response is collected.                        *)
(***************************************************************************)

\* the session of the race and the unrelated one
RaceSession == FromChars(<<"a">>)

OtherSession == FromChars(<<"a", "_", "b">>)

\* the messages of the adds in flight: two of one session give two ids
LoopMessages ==
    {[role |-> "user", content |-> ShortContent, timestamp |-> "1",
      metadata |-> NoMetadata],
     [role |-> "assistant", content |-> ShortContent, timestamp |-> "2",
      metadata |-> NoMetadata]}

\* adds and a clear of one session, a query of the other
LoopRequests ==
    {[op |-> "add", session_id |-> RaceSession, message |-> m] :
        m \in LoopMessages} \cup
    {[op |-> "clear", session_id |-> RaceSession],
     [op |-> "query", session_id |-> OtherSession,
      query |-> <<Run("c", 1)>>]}

\* a request is in flight from its acceptance to the return of its handler
InFlight(t) == tasks[t].pc \in {"pending", "running"}

\* the id the add request will be answered with
RequestId(request) ==
    generate_id(request.session_id, request.message.content,
                AddTimestamp(request.message.timestamp, "1"))

\* the adds in flight whose id the collection does not hold
InFlightAdds ==
    Cardinality({t \in Tasks :
        /\ InFlight(t)
        /\ tasks[t].request.op = "add"
        /\ RequestId(tasks[t].request) \notin Ids(store)})

\* The server accepts a request while slot t is free; an add is accepted
\* when its entry fits the MaxEntries the store is explored to.  before and order
\* record, for the properties, the collection at this moment and whether
\* the request is alone or the first or second of two in flight together.
Accept(t, request) ==
    /\ tasks[t].pc = "idle"
    /\ request.op = "add" =>
        \/ RequestId(request) \in Ids(store)
        \/ Len(store) + InFlightAdds < MaxEntries
    /\ tasks' = [u \in Tasks |->
            IF u = t
            THEN [pc |-> "pending", request |-> request, before |-> store,
                  order |-> IF \E v \in Tasks \ {t} : InFlight(v)
                            THEN "second" ELSE "alone"]
            ELSE IF InFlight(u) THEN [tasks[u] EXCEPT !.order = "first"]
            ELSE tasks[u]]
    /\ UNCHANGED <<service_vars, agent_vars, loop_vars>>

\* The loop starts the handler of t: no other handler is between its start
\* and its return, for none of them yields
Begin(t) ==
    /\ tasks[t].pc = "pending"
    /\ \A u \in Tasks : tasks[u].pc # "running"
    /\ tasks' = [tasks EXCEPT ![t].pc = "running"]
    /\ UNCHANGED <<service_vars, agent_vars, loop_vars>>

\* the handler of request, from its first line to its return
Handler(request, outcome) ==
    IF request.op = "add"
    THEN AddContext(request.session_id, request.message, "1", "1", outcome)
    ELSE IF request.op = "clear"
    THEN outcome = "ok" /\ ClearContext(request.session_id)
    ELSE QueryContext(request.session_id, request.query, <<1>>, NoType,
                      outcome = "ok", TRUE)

\* the handler of t returns: its effect on the collection is made and its
\* response is ready
Return(t, outcome) ==
    /\ tasks[t].pc = "running"
    /\ Handler(tasks[t].request, outcome)
    /\ tasks' = [tasks EXCEPT ![t] =
                    [pc |-> "done", request |-> @.request,
                     before |-> @.before, order |-> @.order,
                     resp |-> resp']]
    /\ UNCHANGED <<agent_vars, loop_vars>>

\* the response of t is sent and its slot is free again
Collect(t) ==
    /\ tasks[t].pc = "done"
    /\ tasks' = [tasks EXCEPT ![t] = [pc |-> "idle"]]
    /\ UNCHANGED <<service_vars, agent_vars, loop_vars>>

LoopOutcomes == {"ok", "embedding_fails"}

NextLoop ==
    \/ \E t \in Tasks, request \in LoopRequests : Accept(t, request)
    \/ \E t \in Tasks : Begin(t)
    \/ \E t \in Tasks, outcome \in LoopOutcomes : Return(t, outcome)
    \/ \E t \in Tasks : Collect(t)

SpecLoop == Init /\ [][NextLoop]_vars

(***************************************************************************)
(* The agents: the tools of agent_with_rag.py and process_response of      *)
(* agent.py, at work in one directory.  A file name is the sequence of its *)
(* characters; files maps the names that exist to their contents.          *)
(***************************************************************************)

\* files written and commands run are explored up to these numbers
MaxFiles == 3

MaxCommands == 1

MaxBlocks == 2

Generated0Py == <<"g", "e", "n", "e", "r", "a", "t", "e", "d", "_", "0", ".", "p", "y">>

Generated1Py == <<"g", "e", "n", "e", "r", "a", "t", "e", "d", "_", "1", ".", "p", "y">>

FlaskAppPy == <<"f", "l", "a", "s", "k", "_", "a", "p", "p", ".", "p", "y">>

DeploySh == <<"d", "e", "p", "l", "o", "y", ".", "s", "h">>

\* str(counter)
Decimal(n) ==
    LET digit(d) == <<"0", "1", "2", "3", "4", "5", "6", "7", "8", "9">>[d + 1]
    IN  IF n < 10 THEN <<digit(n)>> ELSE <<digit(n \div 10), digit(n % 10)>>

\* os.path.splitext of a name without directories: the extension starts at
\* the last dot that has a character other than a dot before it
ExtStart(path) ==
    LET dots == {i \in 1..Len(path) :
                    path[i] = "." /\ \E j \in 1..(i - 1) : path[j] # "."}
    IN  IF dots = {} THEN Len(path) + 1
        ELSE CHOOSE i \in dots : \A j \in dots : j <= i

SplitName(path) == SubSeq(path, 1, ExtStart(path) - 1)

SplitExt(path) == SubSeq(path, ExtStart(path), Len(path))

\* f"{name}_{counter}{ext}"
Numbered(base_name, counter) ==
    SplitName(base_name) \o <<"_">> \o Decimal(counter) \o SplitExt(base_name)

\* os.path.exists
Exists(fs, path) == path \in DOMAIN fs

\* the while loop of get_unique_filename, from counter on
RECURSIVE FirstFree(_, _, _)
FirstFree(fs, base_name, counter) ==
    IF Exists(fs, Numbered(base_name, counter))
    THEN FirstFree(fs, base_name, counter + 1)
    ELSE Numbered(base_name, counter)

\* a get_unique_filename that returns the name it was given
get_unique_filename_same(fs, base_name) == base_name

get_unique_filename(fs, base_name) ==
    IF ~Exists(fs, base_name) THEN base_name
    ELSE FirstFree(fs, base_name, 1)

\* open(path, "w") and write: the file holds content, whatever it held
WriteFile(fs, path, content) ==
    [p \in DOMAIN fs \cup {path} |-> IF p = path THEN content ELSE fs[p]]

\* The code blocks of a response: their language and what the code holds, as
\* far as extract_filename_from_code looks at it
Langs == {"python", "bash", "text"}

Codes == {"plain", "flask", "docker"}

\* the blocks of the responses processed
Blocks ==
    {[lang |-> "python", code |-> "plain"], [lang |-> "python", code |-> "flask"],
     [lang |-> "bash", code |-> "docker"], [lang |-> "text", code |-> "plain"]}

\* extract_filename_from_code: a name, or <<>> for None
extract_filename_from_code(code, language) ==
    IF language = "python" /\ code = "flask" THEN FlaskAppPy
    ELSE IF language = "bash" /\ code = "docker" THEN DeploySh
    ELSE <<>>

\* f"generated_{idx}.py" and f"generated_{idx}.sh"
GeneratedName(idx, ext) ==
    <<"g", "e", "n", "e", "r", "a", "t", "e", "d", "_">> \o Decimal(idx) \o ext

\* the base name process_response gives a block of a language it writes
BaseFilename(block, idx) ==
    IF extract_filename_from_code(block.code, block.lang) # <<>>
    THEN extract_filename_from_code(block.code, block.lang)
    ELSE GeneratedName(idx, IF block.lang = "python"
                            THEN <<".", "p", "y">> ELSE <<".", "s", "h">>)

\* the result of write_file
WriteResult(ok) == IF ok THEN "Success: File written successfully."
                   ELSE "Error writing file"

\* The loop of process_response from block idx + 1 on: acc holds the files
\* and the list files_created so far; writes[i] tells whether the write of
\* block i succeeds
RECURSIVE ProcessBlocks(_, _, _, _)
ProcessBlocks(acc, code_blocks, writes, idx) ==
    IF idx >= Len(code_blocks) THEN acc
    ELSE LET block == code_blocks[idx + 1]
             filename == get_unique_filename(acc.files, BaseFilename(block, idx))
             result == WriteResult(writes[idx + 1])
         IN  IF block.lang = "text"
             THEN ProcessBlocks(acc, code_blocks, writes, idx + 1)
             ELSE ProcessBlocks(
                    [files |-> IF writes[idx + 1]
                               THEN WriteFile(acc.files, filename, block.code)
                               ELSE acc.files,
                     created |-> Append(acc.created,
                                        <<filename, block.lang, result>>)],
                    code_blocks, writes, idx + 1)

\* process_response(content) of agent.py, for the code blocks of content
ProcessResponse(code_blocks, writes) ==
    /\ Cardinality(DOMAIN files) + Len(code_blocks) <= MaxFiles
    /\ files' = ProcessBlocks([files |-> files, created |-> <<>>],
                              code_blocks, writes, 0).files
    /\ files_created' = ProcessBlocks([files |-> files, created |-> <<>>],
                                      code_blocks, writes, 0).created
    /\ UNCHANGED <<service_vars, tasks, executed, asked, tool_result>>

\* The tools the model names in its JSON, and one the agent does not have
Tools == {"read_file", "write_file", "list_files", "run_command", "delete_file"}

Paths == {Generated0Py, FlaskAppPy}

\* what the write_file tool is asked to write
ToolContent == "tool"

Commands == {"ls", "rm generated_0.py"}

Denied == [kind |-> "text", text |-> "Error: User denied command execution."]

\* what a command that ran did to the files
CommandEffect(fs, command) ==
    IF command = "rm generated_0.py"
    THEN [p \in DOMAIN fs \ {Generated0Py} |-> fs[p]]
    ELSE fs

RunOutcomes == {"ok", "timeout", "raises"}

\* a run_command that shows the prompt and runs the command whatever the
\* answer
run_command_unconfirmed(command, confirm, outcome) ==
    /\ asked' = [command |-> command, answer |-> confirm]
    /\ Len(executed) < MaxCommands
    /\ executed' = Append(executed, command)
    /\ files' = CommandEffect(files, command)
    /\ tool_result' = [kind |-> "output", command |-> command]

\* run_command(command): the safety prompt is shown and answered; only on a
\* yes does subprocess.run get the command, which then runs, runs into the
\* timeout, or is not started because subprocess.run raised
run_command(command, confirm, outcome) ==
    /\ asked' = [command |-> command, answer |-> confirm]
    /\ IF ~confirm
       THEN /\ tool_result' = Denied
            /\ UNCHANGED <<executed, files>>
       ELSE /\ Len(executed) < MaxCommands
            /\ executed' = IF outcome = "raises" THEN executed
                           ELSE Append(executed, command)
            /\ files' = IF outcome = "ok" THEN CommandEffect(files, command)
                        ELSE files
            /\ tool_result' =
                IF outcome = "ok" THEN [kind |-> "output", command |-> command]
                ELSE IF outcome = "timeout"
                THEN [kind |-> "text", text |-> "Error: Command timed out."]
                ELSE [kind |-> "text", text |-> "Error executing command"]

\* the tool dispatch of agent_with_rag.py
CallTool(tool_name, path, content, command, confirm, outcome) ==
    /\ IF tool_name = "read_file"
       THEN /\ tool_result' = IF Exists(files, path)
                              THEN [kind |-> "text", text |-> files[path]]
                              ELSE [kind |-> "text", text |-> "Error: File not found."]
            /\ UNCHANGED <<files, executed, asked>>
       ELSE IF tool_name = "write_file"
       THEN /\ Exists(files, path) \/ Cardinality(DOMAIN files) < MaxFiles
            /\ files' = IF outcome = "ok" THEN WriteFile(files, path, content)
                        ELSE files
            /\ tool_result' = [kind |-> "text", text |-> WriteResult(outcome = "ok")]
            /\ UNCHANGED <<executed, asked>>
       ELSE IF tool_name = "list_files"
       THEN /\ tool_result' = [kind |-> "listing", names |-> DOMAIN files]
            /\ UNCHANGED <<files, executed, asked>>
       ELSE IF tool_name = "run_command"
       THEN run_command(command, confirm, outcome)
       ELSE /\ tool_result' = [kind |-> "text", text |-> "Error: Tool not found"]
            /\ UNCHANGED <<files, executed, asked>>
    /\ UNCHANGED <<service_vars, tasks, files_created>>

\* no main loop is between two prompts
Idle == UNCHANGED loop_vars

\* the RAG agent calling its tools
NextAgent ==
    \/ \E path \in Paths :
        CallTool("read_file", path, ToolContent, "ls", FALSE, "ok") /\ Idle
    \/ \E path \in Paths, outcome \in {"ok", "raises"} :
        CallTool("write_file", path, ToolContent, "ls", FALSE, outcome) /\ Idle
    \/ \E tool_name \in {"list_files", "delete_file"} :
        CallTool(tool_name, Generated0Py, ToolContent, "ls", FALSE, "ok") /\ Idle
    \/ \E command \in Commands, confirm \in BOOLEAN, outcome \in RunOutcomes :
        /\ CallTool("run_command", Generated0Py, ToolContent, command, confirm,
                    outcome)
        /\ Idle

SpecAgent == Init /\ [][NextAgent]_vars

\* the responses processed: up to MaxBlocks code blocks
Responses == UNION {[1..n -> Blocks] : n \in 0..MaxBlocks}

\* the writes of a response: all succeed, or the one of block failing fails
Writes(code_blocks, failing) == [i \in 1..Len(code_blocks) |-> i # failing]

\* the files the write_file tool writes next to those of process_response:
\* generated_0_2.py leaves a gap in the numbered names of generated_0.py
ResponsePaths == Paths \cup {Numbered(Generated0Py, 2)}

\* agent.py processing responses in a directory where the RAG agent's tools
\* write and remove files
NextResponse ==
    \/ \E code_blocks \in Responses, failing \in 0..MaxBlocks :
        /\ failing <= Len(code_blocks)
        /\ ProcessResponse(code_blocks, Writes(code_blocks, failing))
        /\ Idle
    \/ \E path \in ResponsePaths :
        CallTool("write_file", path, ToolContent, "ls", FALSE, "ok") /\ Idle
    \/ /\ CallTool("run_command", Generated0Py, ToolContent,
                    "rm generated_0.py", TRUE, "ok")
       /\ Idle

SpecResponse == Init /\ [][NextResponse]_vars

(***************************************************************************)
(* The main loop of agent.py: prompt, chat with the model, write the code  *)
(* blocks of its answer, remember the exchange.                            *)
(***************************************************************************)

\* the history is explored up to this length
MaxHistory == 4

Quit == FromChars(<<"q", "u", "i", "t">>)

\* what the user types: a request, and the words that end the loop
ChatInputs == {ShortContent, Quit, FromChars(<<"e", "x", "i", "T">>)}

\* user_input.lower() in ["quit", "exit"]
IsQuit(user_input) ==
    StrLower(user_input) \in {Quit, FromChars(<<"e", "x", "i", "t">>)}

\* the answers of the model: no code block or one
ChatResponses == {r \in Responses : Len(r) <= 1}

\* a rollback that leaves the message in
PopNothing(msgs) == msgs

\* messages.pop()
Pop(msgs) == SubSeq(msgs, 1, Len(msgs) - 1)

\* Prompt.ask, the test for quit and exit, and the append of the user's
\* message
AgentPrompt(user_input) ==
    /\ pc.agent = "prompt"
    /\ IF IsQuit(user_input)
       THEN /\ console' = [console EXCEPT !.agent = "Goodbye"]
            /\ pc' = [pc EXCEPT !.agent = "ended"]
            /\ history' = history
       ELSE /\ Len(history) + 2 <= MaxHistory
            /\ history' = Append(history, [role |-> "user",
                                           content |-> user_input])
            /\ pc' = [pc EXCEPT !.agent = "chat"]
            /\ console' = console
    /\ UNCHANGED <<service_vars, tasks, agent_vars, turn>>

\* client.chat raises: the error is printed, the user's message is taken off
\* the history and the loop continues
AgentChatFails ==
    /\ pc.agent = "chat"
    /\ console' = [console EXCEPT !.agent = "Ollama Error"]
    /\ history' = Pop(history)
    /\ pc' = [pc EXCEPT !.agent = "prompt"]
    /\ UNCHANGED <<service_vars, tasks, agent_vars, turn>>

\* client.chat returns: the code blocks of the answer are written and the
\* answer is appended to the history
AgentChatReturns(code_blocks, writes) ==
    /\ pc.agent = "chat"
    /\ ProcessResponse(code_blocks, writes)
    /\ console' = [console EXCEPT !.agent =
            IF files_created' # <<>> THEN "Files Created" ELSE "Agent Response"]
    /\ history' = Append(history, [role |-> "assistant",
                                   content |-> code_blocks])
    /\ pc' = [pc EXCEPT !.agent = "prompt"]
    /\ turn' = turn

NextChat ==
    \/ \E user_input \in ChatInputs : AgentPrompt(user_input)
    \/ AgentChatFails
    \/ \E code_blocks \in ChatResponses, failing \in 0..1 :
        /\ failing <= Len(code_blocks)
        /\ AgentChatReturns(code_blocks, Writes(code_blocks, failing))

SpecChat == Init /\ [][NextChat]_vars

(***************************************************************************)
(* The main loop of agent_with_rag.py: every turn stores what is said in   *)
(* the context service and asks it for context, through ContextClient.     *)
(* The loop is followed from one call to the next: pc.rag names the call   *)
(* it stands before.                                                       *)
(***************************************************************************)

\* SESSION_ID, a uuid4
SESSION_ID == FromChars(<<"a">>)

\* datetime.now().isoformat() of the agent: the loop is followed within one
\* reading of its clock
RagClock == {"2"}

\* how an add of the agent ends in the service
RagOutcomes == {"ok", "insert_fails"}

\* MAX_CONTEXT_ITEMS
MAX_CONTEXT_ITEMS == 5

\* the limit build_context_aware_prompt asks the recent messages with
RecentLimit == 3

\* whether a request reaches the service: "down" is a refused connection or
\* no answer within the timeout, where requests raises
Reach == {"up", "down"}

\* response.ok
Ok(response) == response.status # "error"

\* what a ContextClient method returns: the body, the messages of the body,
\* None or []
ClientNone == [kind |-> "None"]
ClientEmpty == [kind |-> "list", n |-> 0]
ClientJson == [kind |-> "json"]
ClientMessages(response) == [kind |-> "list", n |-> Len(response.messages)]

StatsWord == FromChars(<<"s", "t", "a", "t", "s">>)
ClearWord == FromChars(<<"c", "l", "e", "a", "r">>)

\* what the user types
RagInputs ==
    {ShortContent, Quit, StatsWord, FromChars(<<"c", "L", "e", "a", "r">>)}

\* an answer of the model that is a call of a tool
ListFilesCall ==
    FromChars(<<"{", "\"", "t", "o", "o", "l", "\"", ":", "\"", "l", "i",
                "s", "t", "_", "f", "i", "l", "e", "s", "\"", "}">>)

\* what the model answers to a request: a text, a well-formed call of a tool,
\* and the opening of a call with nothing behind it
RagContents == {ShortContent, ListFilesCall, ToolJson}

\* json.loads of the text between the first "{" and the last "}" of the
\* answer, for the answers of RagContents; tool "" stands for the
\* JSONDecodeError
RagParse(content) ==
    IF content = ListFilesCall THEN [tool |-> "list_files"]
    ELSE [tool |-> ""]

\* f"Tool '{tool_name}' result: {result}", without the name and the result
ResultContent == FromChars(<<"T", "o", "o", "l">>)

\* f"Interpret the result of {tool_name}: {result[:200]}", likewise
InterpretQuery == FromChars(<<"I", "n", "t", "e", "r", "p", "r", "e", "t">>)

\* the message ContextClient.add_message posts; the timestamp is
\* datetime.now().isoformat()
RagMessage(role, content, metadata, now) ==
    [role |-> role, content |-> content, timestamp |-> now,
     metadata |-> metadata]

\* ContextClient.add_message: the request, served by add_context if it
\* reaches the service
add_message(role, content, metadata, now, reach, outcome) ==
    IF reach = "up"
    THEN /\ HasRoom(SESSION_ID, RagMessage(role, content, metadata, now), now)
         /\ AddContext(SESSION_ID, RagMessage(role, content, metadata, now),
                       now, now, outcome)
    ELSE UNCHANGED service_vars

\* response.json() if response.ok else None, and None from the except
\* clause
ReturnedJson(reach) ==
    IF reach = "up" /\ Ok(resp') THEN ClientJson ELSE ClientNone

\* response.json()["messages"] if response.ok, else [], and [] from the
\* except clause
ReturnedMessages(reach) ==
    IF reach = "up" /\ Ok(resp') THEN ClientMessages(resp') ELSE ClientEmpty

\* ContextClient.query_relevant_context
query_relevant_context(query, top_k, reach, embed_ok) ==
    IF reach = "up"
    THEN QueryContext(SESSION_ID, query, <<top_k>>, NoType, embed_ok, TRUE)
    ELSE UNCHANGED service_vars

\* ContextClient.get_recent_context
get_recent_context(limit, reach) ==
    IF reach = "up"
    THEN GetRecentContext(SESSION_ID, limit, 0)
    ELSE UNCHANGED service_vars

\* ContextClient.get_stats
get_stats(reach) ==
    IF reach = "up"
    THEN GetContextStats(SESSION_ID)
    ELSE UNCHANGED service_vars

\* the loop moves to the call named next
Goto(next) == pc' = [pc EXCEPT !.rag = next]

Says(text) == console' = [console EXCEPT !.rag = text]

\* the check of the connection before the loop: GET / with a bare except
RagConnect(reach) ==
    /\ pc.rag = "connect"
    /\ IF reach = "up" THEN HealthCheck ELSE UNCHANGED service_vars
    /\ Says(IF reach = "up" /\ Ok(resp') THEN "connected" ELSE "degraded")
    /\ Goto("prompt")
    /\ UNCHANGED <<tasks, agent_vars, history, turn>>

\* quit or exit: the statistics are asked, the loop ends
RagQuit(user_input, reach) ==
    /\ pc.rag = "prompt"
    /\ IsQuit(user_input)
    /\ get_stats(reach)
    /\ turn' = [turn EXCEPT !.user_input = user_input,
                            !.returned = ReturnedJson(reach)]
    /\ Says(IF turn'.returned # ClientNone THEN "Session ended" ELSE "Goodbye")
    /\ Goto("ended")
    /\ UNCHANGED <<tasks, agent_vars, history>>

\* stats: the statistics are asked and shown if there are any
RagStats(user_input, reach) ==
    /\ pc.rag = "prompt"
    /\ StrLower(user_input) = StatsWord
    /\ get_stats(reach)
    /\ turn' = [turn EXCEPT !.user_input = user_input,
                            !.returned = ReturnedJson(reach)]
    /\ Says(IF turn'.returned # ClientNone THEN "Session Statistics"
            ELSE console.rag)
    /\ Goto("prompt")
    /\ UNCHANGED <<tasks, agent_vars, history>>

\* clear: after the user's yes the loop posts to /context/clear itself, with
\* no timeout and no except clause; an exception of requests.post ends the
\* program
RagClear(user_input, confirm, reach) ==
    /\ pc.rag = "prompt"
    /\ StrLower(user_input) = ClearWord
    /\ IF ~confirm
       THEN /\ UNCHANGED <<service_vars, console>>
            /\ Goto("prompt")
       ELSE IF reach = "up"
       THEN /\ ClearContext(SESSION_ID)
            /\ Says("Context cleared")
            /\ Goto("prompt")
       ELSE /\ UNCHANGED service_vars
            /\ Says("ConnectionError")
            /\ Goto("crashed")
    /\ turn' = [turn EXCEPT !.user_input = user_input]
    /\ UNCHANGED <<tasks, agent_vars, history>>

\* any other input is a request: it is stored as the user's message
RagRequest(user_input, now, reach, outcome) ==
    /\ pc.rag = "prompt"
    /\ ~IsQuit(user_input)
    /\ StrLower(user_input) \notin {StatsWord, ClearWord}
    /\ add_message("user", user_input, [type |-> "user_query"], now, reach,
                   outcome)
    /\ turn' = [turn EXCEPT !.user_input = user_input,
                            !.returned = ReturnedJson(reach)]
    /\ Goto("query")
    /\ UNCHANGED <<tasks, agent_vars, history, console>>

\* build_context_aware_prompt, first call: the relevant context
RagQuery(reach, embed_ok) ==
    /\ pc.rag \in {"query", "query2"}
    /\ query_relevant_context(IF pc.rag = "query" THEN turn.user_input
                              ELSE InterpretQuery,
                              MAX_CONTEXT_ITEMS, reach, embed_ok)
    /\ turn' = [turn EXCEPT !.returned = ReturnedMessages(reach)]
    /\ Goto(IF pc.rag = "query" THEN "recent" ELSE "recent2")
    /\ UNCHANGED <<tasks, agent_vars, history, console>>

\* build_context_aware_prompt, second call: the recent context
RagRecent(reach) ==
    /\ pc.rag \in {"recent", "recent2"}
    /\ get_recent_context(RecentLimit, reach)
    /\ turn' = [turn EXCEPT !.returned = ReturnedMessages(reach)]
    /\ Goto(IF pc.rag = "recent" THEN "chat" ELSE "chat2")
    /\ UNCHANGED <<tasks, agent_vars, history, console>>

\* client.chat raises in the first call, inside try: the error is printed
\* and the loop continues
RagChatFails ==
    /\ pc.rag = "chat"
    /\ Says("Ollama Error")
    /\ Goto("prompt")
    /\ UNCHANGED <<service_vars, tasks, agent_vars, history, turn>>

\* client.chat returns: a call of a tool is parsed, anything else is shown
RagChatReturns(content) ==
    /\ pc.rag = "chat"
    /\ turn' = [turn EXCEPT !.content = content]
    /\ IF ~StrContains(content, ToolJson)
       THEN Says("Agent") /\ Goto("store_answer")
       ELSE IF RagParse(content).tool = ""
       THEN Says("Failed to parse tool call JSON.") /\ Goto("prompt")
       ELSE Says("Tool Execution") /\ Goto("store_call")
    /\ UNCHANGED <<service_vars, tasks, agent_vars, history>>

\* the call of the tool is stored
RagStoreCall(now, reach, outcome) ==
    /\ pc.rag = "store_call"
    /\ add_message("assistant", turn.content,
                   [type |-> "tool_call",
                    tool_name |-> RagParse(turn.content).tool],
                   now, reach, outcome)
    /\ turn' = [turn EXCEPT !.returned = ReturnedJson(reach)]
    /\ Goto("tool")
    /\ UNCHANGED <<tasks, agent_vars, history, console>>

\* the tool runs
RagTool ==
    /\ pc.rag = "tool"
    /\ CallTool(RagParse(turn.content).tool, Generated0Py, ToolContent, "ls",
                FALSE, "ok")
    /\ Says("Tool Result")
    /\ Goto("store_result")
    /\ UNCHANGED <<history, turn>>

\* the result of the tool is stored
RagStoreResult(now, reach, outcome) ==
    /\ pc.rag = "store_result"
    /\ add_message("system", ResultContent,
                   [type |-> "tool_result",
                    tool_name |-> RagParse(turn.content).tool],
                   now, reach, outcome)
    /\ turn' = [turn EXCEPT !.returned = ReturnedJson(reach)]
    /\ Goto("query2")
    /\ UNCHANGED <<tasks, agent_vars, history, console>>

\* the second client.chat, which interprets the result: its exceptions are
\* not caught, the except clause around it names json.JSONDecodeError only
RagInterpret(chat_ok) ==
    /\ pc.rag = "chat2"
    /\ IF chat_ok
       THEN /\ turn' = [turn EXCEPT !.content = ShortContent]
            /\ Says("Agent Response")
            /\ Goto("store_answer")
       ELSE /\ turn' = turn
            /\ Says("Ollama exception")
            /\ Goto("crashed")
    /\ UNCHANGED <<service_vars, tasks, agent_vars, history>>

\* the answer shown is stored and the loop is back at its prompt
RagStoreAnswer(now, reach, outcome) ==
    /\ pc.rag = "store_answer"
    /\ add_message("assistant", turn.content, [type |-> "agent_response"],
                   now, reach, outcome)
    /\ turn' = [turn EXCEPT !.returned = ReturnedJson(reach)]
    /\ Goto("prompt")
    /\ UNCHANGED <<tasks, agent_vars, history, console>>

NextRag ==
    \/ \E reach \in Reach : RagConnect(reach)
    \/ \E user_input \in RagInputs, reach \in Reach : RagQuit(user_input, reach)
    \/ \E user_input \in RagInputs, reach \in Reach : RagStats(user_input, reach)
    \/ \E user_input \in RagInputs, confirm \in BOOLEAN, reach \in Reach :
        RagClear(user_input, confirm, reach)
    \/ \E user_input \in RagInputs, now \in RagClock, reach \in Reach,
          outcome \in RagOutcomes :
        RagRequest(user_input, now, reach, outcome)
    \/ \E reach \in Reach, embed_ok \in BOOLEAN : RagQuery(reach, embed_ok)
    \/ \E reach \in Reach : RagRecent(reach)
    \/ RagChatFails
    \/ \E content \in RagContents : RagChatReturns(content)
    \/ \E now \in RagClock, reach \in Reach, outcome \in RagOutcomes :
        RagStoreCall(now, reach, outcome)
    \/ RagTool
    \/ \E now \in RagClock, reach \in Reach, outcome \in RagOutcomes :
        RagStoreResult(now, reach, outcome)
    \/ \E chat_ok \in BOOLEAN : RagInterpret(chat_ok)
    \/ \E now \in RagClock, reach \in Reach, outcome \in RagOutcomes :
        RagStoreAnswer(now, reach, outcome)

SpecRag == Init /\ [][NextRag]_vars

(***************************************************************************)
(* Properties                                                              *)
(***************************************************************************)

\* the entries of col that belong to session t, in the order of col
EntriesOf(col, t) ==
    LET Belongs(e) == e.metadata.session_id = t
    IN  SelectSeq(col, Belongs)

\* the timestamps of a sequence of messages or entries
StampsOf(ms) == [i \in 1..Len(ms) |-> ms[i].metadata.timestamp]

\* C1: session isolation.  An entry is stored under the session of the add
\* that stored it; query and recent of a session return only entries stored
\* under it; stats counts only them; clear counts only them and leaves the
\* entries of every other session in place.
C1_SessionIsolation ==
    [][LET s == req'.session_id
       IN  /\ Len(store') > Len(store) =>
                /\ req'.op = "add"
                /\ store'[Len(store')].metadata.session_id = s
           /\ (req'.op \in {"query", "recent"} /\ resp'.status = "success") =>
                \A i \in 1..Len(resp'.messages) :
                    \E j \in 1..Len(store) :
                        /\ store[j].metadata.session_id = s
                        /\ store[j].id = resp'.messages[i].id
                        /\ store[j].document = resp'.messages[i].content
                        /\ store[j].metadata = resp'.messages[i].metadata
           /\ req'.op = "stats" =>
                /\ resp'.total_messages = Len(EntriesOf(store, s))
                /\ \A p \in resp'.by_type :
                    p[2] = Cardinality({j \in 1..Len(store) :
                                /\ store[j].metadata.session_id = s
                                /\ store[j].metadata.type = p[1]})
           /\ req'.op = "clear" =>
                /\ resp'.deleted_count = Len(EntriesOf(store, s))
                /\ \A t \in Sessions \ {s} :
                    EntriesOf(store', t) = EntriesOf(store, t)]_vars

\* C1 witness: a read of one session returned entries while the store held
\* an entry of the other session
C1_Witness ==
    /\ req.op \in {"query", "recent"}
    /\ resp.status = "success"
    /\ resp.messages # <<>>
    /\ \E j \in 1..Len(store) : store[j].metadata.session_id # req.session_id

\* the slice recent is specified to return: all entries of the session,
\* most recent first, then [offset, offset + limit)
RecentExpected(session_id, limit, offset) ==
    LET all == EntriesOf(store, session_id)
        sorted == SortedBy(all, [i \in 1..Len(all) |->
                                    0 - TsRank(all[i].metadata.timestamp)])
    IN  SubSeq(sorted, offset + 1, Min(offset + limit, Len(sorted)))

\* C2: recent(session_id, limit, offset) returns the slice [offset,
\* offset + limit) of all entries of the session sorted by timestamp, most
\* recent first (compared here by the timestamps returned).
C2_RecentIsSliceOfAll ==
    req.op = "recent" =>
        StampsOf(resp.messages)
            = StampsOf(RecentExpected(req.session_id, req.limit, req.offset))

\* C3: the total_count of recent is the number of entries stored for the
\* session, whatever limit and offset are.
C3_RecentTotalCount ==
    req.op = "recent" =>
        resp.total_count = Len(EntriesOf(store, req.session_id))

\* C4: round trip.  recent(s, limit=1, offset=0) right after a successful
\* add(s, ...) whose entry is stored and whose timestamp is greater than that
\* of every other entry of s returns exactly one entry, whose content is the
\* content added.
C4_RoundTrip ==
    [][(/\ req.op = "add"
        /\ resp.status = "success"
        /\ req.message.timestamp # NoTimestamp
        /\ \E j \in 1..Len(store) :
            /\ store[j].id = resp.id
            /\ store[j].metadata.session_id = req.session_id
            /\ store[j].document = req.message.content
        /\ \A j \in 1..Len(store) :
            (store[j].metadata.session_id = req.session_id
                /\ store[j].id # resp.id) =>
                    TsRank(store[j].metadata.timestamp)
                        < TsRank(req.message.timestamp)
        /\ req'.op = "recent"
        /\ req'.session_id = req.session_id
        /\ req'.limit = 1
        /\ req'.offset = 0)
       => (/\ Len(resp'.messages) = 1
           /\ resp'.messages[1].content = req.message.content)]_vars

\* C5: the content stored for an entry is the full text submitted to add:
\* an add that stores an entry stores the content of its request, and what
\* was stored before is left as it was.
C5_StoredContentIsOriginal ==
    [][Len(store') > Len(store) =>
        /\ req'.op = "add"
        /\ Len(store') = Len(store) + 1
        /\ store'[Len(store')].document = req'.message.content
        /\ SubSeq(store', 1, Len(store)) = store]_vars

\* C5 witness: an add stored a text longer than the compression threshold
C5_Witness ==
    /\ req.op = "add"
    /\ resp.status = "success"
    /\ StrLen(req.message.content) > max_length
    /\ \E j \in 1..Len(store) :
        store[j].id = resp.id /\ store[j].document = req.message.content

\* C6: clear(s) returns the number of entries s held before the call and
\* leaves s without entries; a clear(s) right after a clear(s) returns 0.
C6_ClearSemantics ==
    [][req'.op = "clear" =>
        /\ resp'.status = "success"
        /\ resp'.deleted_count = Len(EntriesOf(store, req'.session_id))
        /\ EntriesOf(store', req'.session_id) = <<>>
        /\ (req.op = "clear" /\ req.session_id = req'.session_id) =>
                resp'.deleted_count = 0]_vars

\* C6 witness: a clear removed every entry of a session that held two
C6_Witness ==
    /\ req.op = "clear"
    /\ resp.deleted_count = 2
    /\ EntriesOf(store, req.session_id) = <<>>

\* C7: clear(s) changes nothing outside s: the entries of every other
\* session are the same after it as before it.
C7_ClearFrame ==
    [][req'.op = "clear" =>
        \A t \in Sessions \ {req'.session_id} :
            EntriesOf(store', t) = EntriesOf(store, t)]_vars

\* C7 witness: a clear removed an entry and an entry of another session is
\* still stored
C7_Witness ==
    /\ req.op = "clear"
    /\ resp.deleted_count >= 1
    /\ \E j \in 1..Len(store) : store[j].metadata.session_id # req.session_id

\* C8: determinism and overwrite.  Of two successive adds with the same
\* (session_id, content, timestamp) the second returns the id of the first,
\* does not grow the store, and leaves exactly one entry of that id, which
\* holds the data of the second add.
C8_SecondAddOverwrites ==
    [][(/\ req.op = "add" /\ resp.status = "success"
        /\ req'.op = "add" /\ resp'.status = "success"
        /\ req'.session_id = req.session_id
        /\ req'.message.content = req.message.content
        /\ req'.message.timestamp = req.message.timestamp
        /\ req.message.timestamp # NoTimestamp)
       => (/\ resp'.id = resp.id
           /\ Len(store') = Len(store)
           /\ Cardinality({j \in 1..Len(store') : store'[j].id = resp'.id}) = 1
           /\ \A j \in 1..Len(store') :
                store'[j].id = resp'.id =>
                    /\ store'[j].document = req'.message.content
                    /\ store'[j].metadata.role = req'.message.role)]_vars

\* C9: the id of every stored entry is the hash of its session id, its
\* content and the timestamp of its metadata.
C9_IdMatchesMetadata ==
    \A j \in 1..Len(store) :
        store[j].id = generate_id(store[j].metadata.session_id,
                                  store[j].document,
                                  store[j].metadata.timestamp)

\* an entry that has all of id, full content, metadata and vector
Complete(e) ==
    /\ DOMAIN e = {"id", "embedding", "document", "metadata"}
    /\ {"session_id", "role", "type", "timestamp", "content_length"}
        \subseteq DOMAIN e.metadata
    /\ e.metadata.content_length = StrLen(e.document)
    /\ e.embedding = Encode(compress_long_content(e.document))

\* C10: no partial commit.  An add that fails reports the failure and leaves
\* the store as it was; an add that succeeds leaves an entry of the id it
\* returns; every stored entry is complete.
C10_NoPartialCommit ==
    [][/\ (req'.op = "add" /\ resp'.status = "error") => store' = store
       /\ (req'.op = "add" /\ resp'.status = "success") =>
            resp'.id \in Ids(store')
       /\ \A j \in 1..Len(store') : Complete(store'[j])]_vars

\* C10 witness: an add failed while the store held an entry
C10_Witness ==
    /\ req.op = "add"
    /\ resp.status = "error"
    /\ store # <<>>

\* C11: after a purge has succeeded the store holds no entry, and the call
\* served next (add, query, recent, clear, stats or health check) does not
\* fail on the collection; an add served next that reports success has its
\* entry in the store.
C11_PurgeRecreates ==
    [][(req.op = "purge" /\ resp.status = "success")
        => /\ store = <<>>
           /\ resp'.status = "error" => resp'.detail # "collection"
           /\ (req'.op = "add" /\ resp'.status = "success")
                => resp'.id \in Ids(store')]_vars

\* C12: whatever top_k a query came with, an answer of it holds at most top_k
\* and at most 20 messages, and its total_count is the number of messages
\* it holds; a query answered with an error returns no message.
C12_QueryCap ==
    req.op = "query" =>
        IF resp.status = "success"
        THEN /\ req.top_k # NoTopK
             /\ Len(resp.messages) <= req.top_k[1]
             /\ Len(resp.messages) <= 20
             /\ resp.total_count = Len(resp.messages)
        ELSE DOMAIN resp = {"status", "detail"}

\* a query asking for 50 is answered with 20
C12_Witness ==
    /\ req.op = "query"
    /\ req.top_k = <<50>>
    /\ resp.status = "success"
    /\ Len(resp.messages) = 20

\* the places in the store of the entries a query is about: those of its
\* session and, when it names a type, of that type
Filtered ==
    {i \in 1..Len(store) :
        /\ store[i].metadata.session_id = req.session_id
        /\ req.filter_by_type # NoType
            => store[i].metadata.type = req.filter_by_type}

\* C13: the messages of a query's answer are entries of the requested session
\* and, when filter_by_type is given, of that type, each once and with its
\* distance to the query; they are as many as min(top_k, 20) or, if fewer
\* match, as many as match; they come in ascending distance, and no matching
\* entry left out is nearer than one returned.
C13_QueryNearest ==
    (req.op = "query" /\ resp.status = "success") =>
        LET m == resp.messages
            q == Encode(req.query)
            n == Cardinality(Filtered)
            k == IF req.top_k[1] < 20 THEN req.top_k[1] ELSE 20
        IN  /\ Len(m) = IF k < n THEN k ELSE n
            /\ \A j \in 1..Len(m) : \E i \in Filtered :
                /\ m[j].id = store[i].id
                /\ m[j].content = store[i].document
                /\ m[j].metadata = store[i].metadata
                /\ m[j].distance = Distance(store[i].embedding, q)
            /\ \A j, h \in 1..Len(m) :
                j < h => m[j].id # m[h].id /\ m[j].distance <= m[h].distance
            /\ \A i \in Filtered :
                (\A j \in 1..Len(m) : m[j].id # store[i].id)
                    => \A j \in 1..Len(m) :
                        m[j].distance <= Distance(store[i].embedding, q)

\* a query with a type is answered with some of the matching entries, the
\* first of them not the one stored first
C13_Witness ==
    /\ req.op = "query"
    /\ resp.status = "success"
    /\ req.filter_by_type # NoType
    /\ Len(resp.messages) = 5
    /\ Cardinality(Filtered) > 5
    /\ Cardinality(Filtered) < Len(store)
    /\ \E i, h \in Filtered : h < i /\ store[i].id = resp.messages[1].id

\* whether the characters t, o, o, l, each in either case, stand next to
\* each other somewhere in the text
HasToolWord(text) ==
    LET f == Expand(text)
    IN  \E i \in 1..(Len(f) - 3) :
            /\ f[i] \in {"t", "T"}
            /\ f[i + 1] \in {"o", "O"}
            /\ f[i + 2] \in {"o", "O"}
            /\ f[i + 3] \in {"l", "L"}

\* whether the text holds the literal {"tool":
HasToolLiteral(text) ==
    LET f == Expand(text)
    IN  \E i \in 1..(Len(f) - 7) :
            SubSeq(f, i, i + 7) = <<"{", "\"", "t", "o", "o", "l", "\"", ":">>

\* the classification table: user_query for role user whatever the content;
\* else tool_call for a content holding "tool" in any case or the literal
\* {"tool":; else agent_response for role assistant; else chat
TableType(role, content) ==
    LET marked == HasToolWord(content) \/ HasToolLiteral(content)
    IN  CASE role = "user" -> "user_query"
          [] role # "user" /\ marked -> "tool_call"
          [] role = "assistant" /\ ~marked -> "agent_response"
          [] OTHER -> "chat"

\* C14: the type of every stored entry is the one the classification table
\* gives for its role and content.
C14_TypeTable ==
    \A i \in 1..Len(store) :
        store[i].metadata.type
            = TableType(store[i].metadata.role, store[i].document)

\* the store holds a user's message that names a tool in mixed case and is a
\* user_query, and a system message that does and is a tool_call
C14_Witness ==
    /\ \E i \in 1..Len(store) :
        /\ store[i].metadata.role = "user"
        /\ HasToolWord(store[i].document)
        /\ ~StrContains(store[i].document, ToolWord)
        /\ store[i].metadata.type = "user_query"
    /\ \E i \in 1..Len(store) :
        /\ store[i].metadata.role = "system"
        /\ HasToolWord(store[i].document)
        /\ store[i].metadata.type = "tool_call"

RequiredKeys == {"session_id", "role", "type", "timestamp", "content_length"}

\* C15: every stored entry has the required keys, and an add that stores an
\* entry gives them the derived values (the session and the role of the
\* request, the type of the classification table, the timestamp of the
\* message or, without one, a reading of the clock, the length of the
\* content) whatever the caller's metadata says, and keeps every other key of
\* the caller's metadata with its value.
C15_RequiredKeysDerived ==
    [][/\ \A i \in 1..Len(store') :
            RequiredKeys \subseteq DOMAIN store'[i].metadata
       /\ (req'.op = "add" /\ resp'.status = "success"
                /\ resp'.id \notin Ids(store))
            => \E i \in 1..Len(store') :
                LET md == store'[i].metadata
                    msg == req'.message
                IN  /\ store'[i].id = resp'.id
                    /\ DOMAIN md = RequiredKeys \cup DOMAIN msg.metadata
                    /\ md.session_id = req'.session_id
                    /\ md.role = msg.role
                    /\ md.type = TableType(msg.role, msg.content)
                    /\ IF msg.timestamp # NoTimestamp
                       THEN md.timestamp = msg.timestamp
                       ELSE md.timestamp \in Timestamps
                    /\ md.content_length = StrLen(msg.content)
                    /\ \A k \in DOMAIN msg.metadata \ RequiredKeys :
                        md[k] = msg.metadata[k]]_vars

\* the store holds the entry of a tool result that came with the type
\* tool_result: its type is tool_call, its tool_name is the caller's
C15_Witness ==
    /\ req.op = "add"
    /\ resp.status = "success"
    /\ req.message.metadata = ToolResultMetadata
    /\ \E i \in 1..Len(store) :
        /\ store[i].id = resp.id
        /\ store[i].metadata.type = "tool_call"
        /\ store[i].metadata.tool_name = "calc"

\* C16: the content_length of every stored entry is the length of the content
\* stored with it, also when that content is longer than the threshold.
C16_ContentLengthOriginal ==
    \A i \in 1..Len(store) :
        store[i].metadata.content_length = StrLen(store[i].document)

\* the store holds an entry of a content longer than the threshold
C16_Witness ==
    \E i \in 1..Len(store) :
        /\ StrLen(store[i].document) = 1001
        /\ store[i].metadata.content_length = 1001

\* the characters of "\n... [content truncated] ...\n"
MarkerChars ==
    <<"\n", ".", ".", ".", " ", "[", "c", "o", "n", "t", "e", "n", "t", " ",
      "t", "r", "u", "n", "c", "a", "t", "e", "d", "]", " ", ".", ".", ".",
      "\n">>

\* C17: the text an add hands to the embedding function is the content when
\* the content has at most 1000 characters, and else the first 500
\* characters of the content, the truncation marker and the last 500
\* characters of the content.
C17_CompressionPolicy ==
    req.op = "add" =>
        LET f == Expand(req.message.content)
            n == Len(f)
        IN  /\ Len(embedded) = 1
            /\ Expand(embedded[1])
                = IF n <= 1000 THEN f
                  ELSE SubSeq(f, 1, 500) \o MarkerChars
                        \o SubSeq(f, n - 499, n)

\* an add of 2000 characters had 1029 embedded
C17_Witness ==
    /\ req.op = "add"
    /\ StrLen(req.message.content) = 2000
    /\ StrLen(embedded[1]) = 1029

\* C18 as stated: whenever an add stored a content of more than 1000
\* characters, the text it handed to the embedding function is not the
\* content stored.
C18_EmbeddingDiffers ==
    (req.op = "add" /\ resp.status = "success") =>
        \A i \in 1..Len(store) :
            (store[i].id = resp.id /\ StrLen(store[i].document) > 1000)
                => Expand(embedded[1]) # Expand(store[i].document)

\* C18: whenever an add stored a content of more than 1000 characters, the
\* text it handed to the embedding function is not the content stored,
\* unless the content has 1029 characters, the 501st to the 529th of them
\* the truncation marker; then it is the content stored.
C18_EmbeddingDiffersUnlessMarked ==
    (req.op = "add" /\ resp.status = "success") =>
        \A i \in 1..Len(store) :
            (store[i].id = resp.id /\ StrLen(store[i].document) > 1000)
                => LET f == Expand(store[i].document)
                       marked == /\ Len(f) = 1029
                                 /\ SubSeq(f, 501, 529) = MarkerChars
                   IN  (Expand(embedded[1]) = f) <=> marked

\* an add stored 1029 characters without the marker and had another text
\* embedded
C18_Witness ==
    /\ req.op = "add"
    /\ resp.status = "success"
    /\ \E i \in 1..Len(store) :
        /\ store[i].id = resp.id
        /\ StrLen(store[i].document) = 1029
        /\ Expand(store[i].document)[501] = "x"
        /\ embedded[1] # store[i].document

RECURSIVE SumOfCounts(_)
\* the sum of the counts of a set of (type, count) pairs
SumOfCounts(pairs) ==
    IF pairs = {} THEN 0
    ELSE LET p == CHOOSE x \in pairs : TRUE
         IN  p[2] + SumOfCounts(pairs \ {p})

\* C19: stats of a session that has entries reports their number as
\* total_messages; by_type holds one count for every type present, the
\* number of the session's entries of that type, none of them 0, and the
\* counts add up to total_messages; oldest_message and newest_message are
\* the least and the greatest of the stored timestamps.
C19_StatsAggregation ==
    LET es == EntriesOf(store, req.session_id)
        n == Len(es)
        stamps == {es[i].metadata.timestamp : i \in 1..n}
        types == {es[i].metadata.type : i \in 1..n}
    IN  (req.op = "stats" /\ n > 0) =>
            /\ resp.status = "success"
            /\ resp.total_messages = n
            /\ {p[1] : p \in resp.by_type} = types
            /\ Cardinality(resp.by_type) = Cardinality(types)
            /\ \A p \in resp.by_type :
                /\ p[2] = Cardinality({i \in 1..n :
                                        es[i].metadata.type = p[1]})
                /\ p[2] > 0
            /\ SumOfCounts(resp.by_type) = n
            /\ resp.oldest_message \in stamps
            /\ resp.newest_message \in stamps
            /\ \A t \in stamps :
                /\ TsRank(resp.oldest_message) <= TsRank(t)
                /\ TsRank(t) <= TsRank(resp.newest_message)
            /\ TsRank(resp.oldest_message) <= TsRank(resp.newest_message)

\* stats of a session with two entries of different types and timestamps
C19_Witness ==
    /\ req.op = "stats"
    /\ resp.status = "success"
    /\ resp.total_messages = 2
    /\ Cardinality(resp.by_type) = 2
    /\ resp.oldest_message = "1"
    /\ resp.newest_message = "2"

\* C20: for a session without entries, recent answers an empty list with
\* total_count 0, clear answers deleted_count 0 and deletes nothing, stats
\* answers total_messages 0 and an empty by_type without oldest_message and
\* newest_message, and query answers an empty list with total_count 0
\* unless the embedding failed or the backend rejected the where clause;
\* none of them fails for the session being empty.
C20_EmptyIsNoFailure ==
    [][EntriesOf(store, req'.session_id) = <<>> =>
        /\ req'.op = "recent" =>
            /\ resp'.status = "success"
            /\ resp'.messages = <<>>
            /\ resp'.total_count = 0
        /\ req'.op = "clear" =>
            /\ resp'.status = "success"
            /\ resp'.deleted_count = 0
            /\ store' = store
        /\ req'.op = "stats" =>
            /\ resp'.status = "success"
            /\ resp'.total_messages = 0
            /\ resp'.by_type = {}
            /\ DOMAIN resp' \cap {"oldest_message", "newest_message"} = {}
        /\ req'.op = "query" =>
            IF resp'.status = "error"
            THEN resp'.detail \in {"embedding", "where"}
            ELSE /\ resp'.status = "success"
                 /\ resp'.messages = <<>>
                 /\ resp'.total_count = 0]_vars

\* a query, served without failure, of a session that has no entry while
\* another session has
C20_Witness ==
    /\ req.op = "query"
    /\ store # <<>>
    /\ EntriesOf(store, req.session_id) = <<>>
    /\ resp.status = "success"
    /\ resp.messages = <<>>

\* C21: an entry of the store is, after any request, either still in the
\* store with the content, the metadata and the vector it had, or gone with
\* its id, and it is gone only when the request was a clear of its session
\* or a purge.
C21_Lifecycle ==
    [][\A i \in 1..Len(store) :
        IF store[i].id \in Ids(store')
        THEN \E j \in 1..Len(store') : store'[j] = store[i]
        ELSE \/ /\ req'.op = "clear"
                /\ req'.session_id = store[i].metadata.session_id
             \/ req'.op = "purge"]_vars

\* an add of an id the store holds, by another role, was answered with
\* success and the entry has the role it was stored with
C21_Witness ==
    /\ req.op = "add"
    /\ resp.status = "success"
    /\ \E i \in 1..Len(store) :
        /\ store[i].id = resp.id
        /\ store[i].metadata.role # req.message.role

ReadOps == {"query", "recent", "stats", "health"}

\* C22: query, recent, stats and the health check leave the entries of the
\* store as they are, and a read that repeats the request before it, both
\* served without failure, gets the answer the first got.
C22_ReadsChangeNothing ==
    [][req'.op \in ReadOps =>
        /\ store' = store
        /\ (req' = req /\ resp.status # "error" /\ resp'.status # "error")
            => resp' = resp]_vars

\* a health check was served on a store that holds entries of two sessions
C22_Witness ==
    /\ req.op = "health"
    /\ resp.status = "running"
    /\ resp.total_contexts = 2
    /\ \E i, j \in 1..Len(store) :
        store[i].metadata.session_id # store[j].metadata.session_id

\* C23: no stored entry has an empty session_id: an add whose session_id is
\* missing or empty is rejected as a validation error and stores nothing.
\* The code rejects the missing one only.
C23_NoEmptySession ==
    /\ \A i \in 1..Len(store) : store[i].metadata.session_id # EmptySession
    /\ (req.op = "add" /\ req.session_id = EmptySession) => resp.status = "invalid"

\* C24: while the handler of an add or a query of one session is in its
\* embedding call, an accepted request of another session can start.  In the
\* code the call is synchronous inside an `async def`: nothing starts before
\* the handler returns.
C24_EmbeddingDoesNotBlock ==
    \A t \in Tasks, u \in Tasks :
        (/\ tasks[t].pc = "running"
         /\ tasks[t].request.op \in {"add", "query"}
         /\ tasks[u].pc = "pending"
         /\ tasks[u].request.session_id # tasks[t].request.session_id)
        => ENABLED Begin(u)

\* the ids of the entries of col that belong to session t
SessionIds(col, t) == {EntriesOf(col, t)[i].id : i \in 1..Len(EntriesOf(col, t))}

\* an add by t and a clear by u of one session that were in flight together
\* and have both returned with success
Raced(t, u) ==
    /\ tasks[t].pc = "done" /\ tasks[u].pc = "done"
    /\ tasks[t].request.op = "add" /\ tasks[u].request.op = "clear"
    /\ tasks[t].request.session_id = tasks[u].request.session_id
    /\ tasks[t].order # "alone" /\ tasks[u].order # "alone"
    /\ tasks[t].resp.status = "success" /\ tasks[u].resp.status = "success"

\* the collection as it was when the first of two requests in flight
\* together was accepted
BeforeBoth(t, u) ==
    IF tasks[t].order = "first" THEN tasks[t].before ELSE tasks[u].before

\* C25: clear(s) in flight together with add(s, e): either may be served
\* first; after both, e is stored when the add was served last and no entry
\* of s is stored when the clear was; every entry of s stored before either
\* was accepted is removed (e alone can be stored again, by the add), and
\* deleted_count is the number of entries the clear removed.
C25_ClearAddRace ==
    /\ [](\A t \in Tasks, u \in Tasks :
            /\ (/\ tasks[t].pc = "pending" /\ tasks[u].pc = "pending" /\ t # u
                /\ \A v \in Tasks : tasks[v].pc # "running")
               => ENABLED Begin(t) /\ ENABLED Begin(u)
            /\ Raced(t, u) =>
                /\ req.op \in {"add", "clear"}
                /\ req.op = "add" =>
                    SessionIds(store, req.session_id) = {tasks[t].resp.id}
                /\ req.op = "clear" =>
                    SessionIds(store, req.session_id) = {}
                /\ \A id \in SessionIds(BeforeBoth(t, u), req.session_id) :
                    \/ id \notin Ids(store)
                    \/ req.op = "add" /\ id = tasks[t].resp.id)
    /\ [][\A u \in Tasks :
            (/\ tasks[u].pc = "running" /\ tasks[u].request.op = "clear"
             /\ tasks'[u].pc = "done" /\ tasks'[u].resp.status = "success")
            => /\ tasks'[u].resp.deleted_count = Len(store) - Len(store')
               /\ Ids(store') = Ids(store) \ SessionIds(store, tasks[u].request.session_id)]_vars

\* the clear was served first: e is stored and the entry stored before is not
C25_Witness ==
    \E t \in Tasks, u \in Tasks :
        /\ Raced(t, u)
        /\ req.op = "add"
        /\ SessionIds(BeforeBoth(t, u), req.session_id) # {}
        /\ tasks[t].resp.id \notin Ids(BeforeBoth(t, u))
        /\ tasks[t].resp.id \in Ids(store)
        /\ tasks[u].resp.deleted_count = 1

\* the add was served first: e is removed with the entry stored before
C25_WitnessAbsent ==
    \E t \in Tasks, u \in Tasks :
        /\ Raced(t, u)
        /\ req.op = "clear"
        /\ SessionIds(BeforeBoth(t, u), req.session_id) # {}
        /\ tasks[t].resp.id \notin Ids(BeforeBoth(t, u))
        /\ store = <<>>
        /\ tasks[u].resp.deleted_count = 2

\* the operations of the service that answer inside a try block
ServiceOps == {"add", "query", "recent", "clear", "stats", "purge"}

\* what a response of status success to the request r tells: the request
\* was served on the collection bef and left it as aft
Served(r, answer, bef, aft, usable) ==
    IF r.op = "purge" THEN aft = <<>>
    ELSE /\ usable
         /\ IF r.op = "add"
            THEN "id" \in DOMAIN answer /\ answer.id \in Ids(aft)
            ELSE IF r.op = "clear"
            THEN /\ "deleted_count" \in DOMAIN answer
                 /\ SessionIds(aft, r.session_id) = {}
            ELSE IF r.op = "stats"
            THEN /\ "total_messages" \in DOMAIN answer
                 /\ answer.total_messages = Len(EntriesOf(bef, r.session_id))
            ELSE /\ "messages" \in DOMAIN answer
                 /\ \A i \in 1..Len(answer.messages) :
                        answer.messages[i].id \in SessionIds(bef, r.session_id)

\* C26: every request to add, query, recent, clear, stats or purge is
\* answered either with the one failure status, which carries a message, or
\* with success, and success is answered only when the request was served:
\* never after the collection was dropped, never for an add whose entry is
\* not stored, a clear that left entries or a purge that dropped nothing.
C26_FailuresSurface ==
    [][req'.op \in ServiceOps =>
        /\ resp'.status \in {"success", "error"}
        /\ resp'.status = "error" =>
            /\ DOMAIN resp' = {"status", "detail"}
            /\ resp'.detail # ""
        /\ resp'.status = "success" => Served(req', resp', store, store', live)
        /\ (~live /\ req'.op # "purge") => resp'.status = "error"]_vars

\* a purge failed and said so, the entries are still there
C26_Witness ==
    /\ req.op = "purge"
    /\ resp = [status |-> "error", detail |-> "delete_collection"]
    /\ store # <<>>

\* C27: adds whose (session_id, content, timestamp) differ get different
\* ids: the entry stored under the id an add was answered with is the entry
\* of that add's session and content, never one of another session.  The
\* code joins the three with '_', which session ids and contents may hold.
C27_IdsSeparateSessions ==
    (req.op = "add" /\ resp.status = "success") =>
        \A i \in 1..Len(store) :
            store[i].id = resp.id =>
                /\ store[i].metadata.session_id = req.session_id
                /\ store[i].document = req.message.content

\* two adds of one session, by t and by u, answered with different ids, that
\* were accepted on the same collection, in flight together, and have both
\* returned with success
AddsRaced(t, u) ==
    /\ t # u
    /\ tasks[t].pc = "done" /\ tasks[u].pc = "done"
    /\ tasks[t].request.op = "add" /\ tasks[u].request.op = "add"
    /\ tasks[t].request.session_id = tasks[u].request.session_id
    /\ tasks[t].order # "alone" /\ tasks[u].order # "alone"
    /\ tasks[t].before = tasks[u].before
    /\ tasks[t].resp.status = "success" /\ tasks[u].resp.status = "success"
    /\ tasks[t].resp.id # tasks[u].resp.id

\* the ids of the two adds that the collection did not hold before them
NewIds(t, u) == {tasks[t].resp.id, tasks[u].resp.id} \ Ids(tasks[t].before)

C29_ExecutedOnlyConfirmed ==
    [][/\ executed' # executed =>
            /\ asked'.answer
            /\ executed' = Append(executed, asked'.command)
       /\ \A command \in Commands, outcome \in RunOutcomes :
            CallTool("run_command", Generated0Py, ToolContent, command, FALSE,
                     outcome)
            => /\ executed' = executed
               /\ files' = files
               /\ asked' = [command |-> command, answer |-> FALSE]
               /\ tool_result' = Denied]_vars

\* the removal of an existing file was asked for and declined
C29_Witness ==
    /\ asked = [command |-> "rm generated_0.py", answer |-> FALSE]
    /\ tool_result = Denied
    /\ executed = <<>>
    /\ Generated0Py \in DOMAIN files

\* the base names process_response asks get_unique_filename about
BaseNames == {BaseFilename(b, idx) : b \in Blocks, idx \in 0..MaxBlocks}

\* a step of one of the RAG agent's tools
IsToolCall ==
    \/ \E path \in ResponsePaths :
        CallTool("write_file", path, ToolContent, "ls", FALSE, "ok")
    \/ CallTool("run_command", Generated0Py, ToolContent, "rm generated_0.py",
                TRUE, "ok")

\* the names files_created reports as written
Written(created) ==
    {created[i][1] : i \in {j \in 1..Len(created) : created[j][3] = WriteResult(TRUE)}}

\* C30: get_unique_filename returns the base name when no file has it and
\* otherwise the base name numbered, before its extension, with the least
\* N >= 1 that no file has; so process_response leaves every file that
\* existed before it with its content, and writes the blocks of one response
\* to names that are new and different from each other.
C30_NeverOverwrites ==
    /\ [](\A base_name \in BaseNames :
            /\ ~Exists(files, get_unique_filename(files, base_name))
            /\ ~Exists(files, base_name) =>
                get_unique_filename(files, base_name) = base_name
            /\ Exists(files, base_name) =>
                \E n \in 1..(Cardinality(DOMAIN files) + 1) :
                    /\ get_unique_filename(files, base_name) = Numbered(base_name, n)
                    /\ \A k \in 1..(n - 1) : Exists(files, Numbered(base_name, k)))
    /\ [][IsToolCall \/
            /\ \A p \in DOMAIN files : p \in DOMAIN files' /\ files'[p] = files[p]
            /\ DOMAIN files' = DOMAIN files \cup Written(files_created')
            /\ Written(files_created') \cap DOMAIN files = {}
            /\ \A i \in 1..Len(files_created'), j \in 1..Len(files_created') :
                (/\ i < j
                 /\ files_created'[i][3] = WriteResult(TRUE)
                 /\ files_created'[j][3] = WriteResult(TRUE))
                => files_created'[i][1] # files_created'[j][1]]_vars

\* generated_0.py and generated_0_2.py were there: the block went to
\* generated_0_1.py
C30_WitnessGap ==
    /\ files_created = <<<<Numbered(Generated0Py, 1), "python", WriteResult(TRUE)>>>>
    /\ Exists(files, Generated0Py) /\ files[Generated0Py] = ToolContent
    /\ Exists(files, Numbered(Generated0Py, 2))
    /\ files[Numbered(Generated0Py, 2)] = ToolContent
    /\ files[Numbered(Generated0Py, 1)] = "plain"

\* flask_app.py was written by the tool; a response with two Flask blocks
\* went to flask_app_1.py and flask_app_2.py
C30_Witness ==
    /\ Exists(files, FlaskAppPy)
    /\ files[FlaskAppPy] = ToolContent
    /\ Len(files_created) = 2
    /\ files_created[1] = <<Numbered(FlaskAppPy, 1), "python", WriteResult(TRUE)>>
    /\ files_created[2] = <<Numbered(FlaskAppPy, 2), "python", WriteResult(TRUE)>>
    /\ files[Numbered(FlaskAppPy, 1)] = "flask"
    /\ files[Numbered(FlaskAppPy, 2)] = "flask"

\* the history holds user and assistant messages in turn, as many of one as
\* of the other
Alternates(msgs) ==
    /\ Len(msgs) % 2 = 0
    /\ \A i \in 1..Len(msgs) :
        msgs[i].role = IF i % 2 = 1 THEN "user" ELSE "assistant"

\* a step of a turn: the prompt appends the user's message, a failed chat
\* call takes exactly that message off
TurnKeepsHistory ==
    /\ (pc.agent = "prompt" /\ pc'.agent = "chat")
        => /\ Len(history') = Len(history) + 1
           /\ Pop(history') = history
    /\ (pc.agent = "chat" /\ console'.agent = "Ollama Error")
        => /\ pc'.agent = "prompt"
           /\ Append(history', history[Len(history)]) = history

\* C31: whenever agent.py stands at its prompt the history alternates user,
\* assistant, ... and has even length; between the prompt and the model's
\* answer it is that history with the user's message appended, and a turn
\* whose chat call fails takes exactly that message off again.
C31_HistoryAlternates ==
    /\ [](/\ pc.agent \in {"prompt", "ended"} => Alternates(history)
          /\ pc.agent = "chat" =>
                /\ history # <<>>
                /\ history[Len(history)].role = "user"
                /\ Alternates(SubSeq(history, 1, Len(history) - 1)))
    /\ [][TurnKeepsHistory]_vars

\* a turn failed after one that succeeded: the history holds the first only
C31_Witness ==
    /\ pc.agent = "prompt"
    /\ console.agent = "Ollama Error"
    /\ Len(history) = 2
    /\ files_created # <<>>

\* the positions of the RAG loop that stand before a call of ContextClient
ClientCalls ==
    {"query", "recent", "query2", "recent2", "store_call", "store_result",
     "store_answer"}

\* Every call of ContextClient returns, with None or [] when the service
\* answers an error, also when it is not reached, and the loop goes on to
\* its next position; the loop ends by itself on quit and exit only.
C32_ClientCallsReturn ==
    /\ [](pc.rag = "ended" => IsQuit(turn.user_input))
    /\ [][(pc.rag \in ClientCalls /\ pc'.rag # pc.rag)
            => /\ pc'.rag \notin {"crashed", "ended"}
               /\ ~Ok(resp') => turn'.returned \in {ClientNone, ClientEmpty}]_vars

\* C32: an unavailable or failing context service never terminates the loop
\* of the RAG agent: whatever the user types (a request, stats, clear), the
\* loop is not ended by an exception of a request to the service, and it
\* ends on quit and exit only.
C32_ServiceNeverEndsLoop ==
    /\ pc.rag = "ended" => IsQuit(turn.user_input)
    /\ pc.rag = "crashed" => console.rag # "ConnectionError"

====
